---- MODULE Spec2Model ----
(***************************************************************************)
(* State-machine model of the studybook focus timer (src/App.tsx) and of   *)
(* the pure helpers it calls (src/utils.ts).                               *)
(*                                                                         *)
(* React state hooks are the variables.  One action is one event handler   *)
(* or effect callback together with the effects its state changes trigger  *)
(* in the same commit (the timeLeft re-derivation effect of lines 104-107  *)
(* is folded into every action that changes timerMode or replaces the      *)
(* settings.durations object).  The countdown effect of lines 109-117 is   *)
(* the pair Tick / TimerCompleteEffect; React flushes it before the next   *)
(* user event, so no user action is enabled while it is pending.           *)
(*                                                                         *)
(* Strings are sequences of one-character strings (a month name is one     *)
(* token); null and undefined ids are the id 0, generated ids are 1, 2, ...*)
(***************************************************************************)
EXTENDS Integers, Sequences, FiniteSets, TLC

VARIABLES
  projects,           \* useState<Project[]>                 App.tsx:46
  appHistory,         \* useState<AppSessionLog[]>           App.tsx:47
  dayNotes,           \* useState<Record<string,string>>     App.tsx:48
  dayAgendas,         \* useState<Record<string,Record>>     App.tsx:49
  selectedProjectId,  \* useState<string | null>             App.tsx:50
  activeSubtaskId,    \* useState<string | null>             App.tsx:51
  settings,           \* useState<AppSettings>               App.tsx:52
  timerMode,          \* useState<TimerMode>                 App.tsx:54
  timeLeft,           \* useState(number)                    App.tsx:55
  isActive,           \* useState(false)                     App.tsx:56
  pomoCount,          \* useState(0)                         App.tsx:57
  idCounter,          \* number of ids generateId has handed out
  today,              \* the wall clock's calendar day (new Date())
  liveIntervals,      \* setInterval timers not yet cleared      App.tsx:112
  alerts,             \* window.alert dialogs of the last handler
  lastOp              \* the handler or effect callback that ran last

vars ==
  << projects, appHistory, dayNotes, dayAgendas, selectedProjectId,
     activeSubtaskId, settings, timerMode, timeLeft, isActive, pomoCount,
     idCounter, today, liveIntervals, alerts, lastOp >>

-----------------------------------------------------------------------------
(* Bounds of the model                                                     *)

\* completed pomodoros since start; 4 is the first long break
MaxPomo ==
  4

\* ids generateId may hand out (projects and subtasks together)
MaxIds ==
  3

\* how many times midnight passes
MaxDay ==
  1

\* the ledger specification follows a countdown through its last seconds
TickWindow ==
  1

-----------------------------------------------------------------------------
(* Values                                                                  *)

null ==
  0

POMODORO ==
  "pomodoro"

SHORT_BREAK ==
  "short_break"

LONG_BREAK ==
  "long_break"

TimerMode ==
  {POMODORO, SHORT_BREAK, LONG_BREAK}

DEFAULT_SETTINGS ==
  [ durations |-> [pomodoro |-> 25, shortBreak |-> 5, longBreak |-> 15],
    autoStartBreaks |-> FALSE,
    autoStartPomodoros |-> FALSE,
    dailyPomodoroTarget |-> 6 ]

DurationKeys ==
  {"pomodoro", "shortBreak", "longBreak"}

\* the durationKey expression of App.tsx:105 and App.tsx:170
durationKey(mode) ==
  IF mode = POMODORO THEN "pomodoro"
  ELSE IF mode = SHORT_BREAK THEN "shortBreak" ELSE "longBreak"

\* settings.durations[durationKey] * 60
ModeSeconds(s, mode) ==
  s.durations[durationKey(mode)] * 60

-----------------------------------------------------------------------------
(* JavaScript number and string helpers                                    *)

DigitChars ==
  <<"0", "1", "2", "3", "4", "5", "6", "7", "8", "9">>

RECURSIVE NatToString(_)
NatToString(n) ==
  IF n < 10 THEN << DigitChars[n + 1] >>
  ELSE NatToString(n \div 10) \o << DigitChars[(n % 10) + 1] >>

\* Number.prototype.toString for integers (-0 prints as "0")
NumberToString(n) ==
  IF n < 0 THEN <<"-">> \o NatToString(-n) ELSE NatToString(n)

\* String.prototype.padStart(2, '0')
padStart2(s) ==
  IF Len(s) < 2 THEN <<"0">> \o s ELSE s

\* the JavaScript % operator: the result takes the sign of the dividend
JsRem(a, b) ==
  IF a >= 0 THEN a % b ELSE -((-a) % b)

\* utils.ts formatTime
formatTime(seconds) ==
  LET h == seconds \div 3600
      m == JsRem(seconds, 3600) \div 60
      s == JsRem(seconds, 60)
  IN  IF h > 0
      THEN padStart2(NumberToString(h)) \o <<":">> \o padStart2(NumberToString(m))
             \o <<":">> \o padStart2(NumberToString(s))
      ELSE padStart2(NumberToString(m)) \o <<":">> \o padStart2(NumberToString(s))

IsDigit(c) ==
  \E i \in 1..10 : DigitChars[i] = c

DigitValue(c) ==
  (CHOOSE i \in 1..10 : DigitChars[i] = c) - 1

RECURSIVE DigitPrefixLen(_)
\* length of the longest prefix of s made of decimal digits
DigitPrefixLen(s) ==
  IF s = << >> \/ ~IsDigit(Head(s)) THEN 0 ELSE 1 + DigitPrefixLen(Tail(s))

RECURSIVE DigitsValue(_, _)
DigitsValue(s, n) ==
  IF n = 0 THEN 0 ELSE DigitsValue(s, n - 1) * 10 + DigitValue(s[n])

\* parseInt(text): optional sign, then the leading digits; NaN without digits
parseInt(text) ==
  LET neg  == text # << >> /\ Head(text) = "-"
      body == IF neg THEN Tail(text) ELSE text
      n    == DigitPrefixLen(body)
  IN  IF n = 0 THEN [isNaN |-> TRUE, value |-> 0]
      ELSE [isNaN |-> FALSE,
            value |-> IF neg THEN -DigitsValue(body, n) ELSE DigitsValue(body, n)]

\* parseInt(e.target.value) || 1 : NaN and 0 are falsy
parseIntOr1(text) ==
  LET r == parseInt(text)
  IN  IF r.isNaN \/ r.value = 0 THEN 1 ELSE r.value

-----------------------------------------------------------------------------
(* JavaScript numbers.  A non-negative IEEE 754 double is the record       *)
(* [int, frac]: the integer int plus the binary fraction 0.frac, with at   *)
(* most 53 significant bits and no trailing zero in frac.                  *)

\* significant bits of a double
Precision ==
  53

\* binary digits a quotient is expanded to before it is rounded
ExpansionBits ==
  64

RECURSIVE BitLength(_)
BitLength(n) ==
  IF n = 0 THEN 0 ELSE 1 + BitLength(n \div 2)

LeadingZeros(bits) ==
  IF \A i \in 1..Len(bits) : bits[i] = 0 THEN Len(bits)
  ELSE (CHOOSE i \in 1..Len(bits) :
          bits[i] = 1 /\ \A j \in 1..(i - 1) : bits[j] = 0) - 1

StripTrailingZeros(bits) ==
  IF \A i \in 1..Len(bits) : bits[i] = 0 THEN << >>
  ELSE SubSeq(bits, 1, CHOOSE i \in 1..Len(bits) :
                         bits[i] = 1 /\ \A j \in (i + 1)..Len(bits) : bits[j] = 0)

\* int + 0.bits plus one unit in the last place of bits
NextUp(int, bits) ==
  IF \A i \in 1..Len(bits) : bits[i] = 1
  THEN [ int |-> int + 1, frac |-> << >> ]
  ELSE LET z == CHOOSE i \in 1..Len(bits) :
                  bits[i] = 0 /\ \A j \in (i + 1)..Len(bits) : bits[j] = 1
       IN  [ int |-> int,
             frac |-> [ i \in 1..z |-> IF i = z THEN 1 ELSE bits[i] ] ]

\* the double nearest to int + 0.bits (+ something below the last bit when
\* sticky), ties to even
RoundToDouble(int, bits, sticky) ==
  LET keep == IF int > 0 THEN Precision - BitLength(int)
              ELSE LeadingZeros(bits) + Precision
  IN  IF keep >= Len(bits)
      THEN [ int |-> int, frac |-> StripTrailingZeros(bits) ]
      ELSE LET kept  == SubSeq(bits, 1, keep)
               lsb   == IF keep > 0 THEN bits[keep] ELSE int % 2
               half  == bits[keep + 1] = 1
               below == sticky \/ \E j \in (keep + 2)..Len(bits) : bits[j] = 1
               up    == NextUp(int, kept)
           IN  IF half /\ (below \/ lsb = 1)
               THEN [ int |-> up.int, frac |-> StripTrailingZeros(up.frac) ]
               ELSE [ int |-> int, frac |-> StripTrailingZeros(kept) ]

\* 2^i modulo den
RECURSIVE Pow2Mod(_, _)
Pow2Mod(i, den) ==
  IF i = 0 THEN 1 % den ELSE (2 * Pow2Mod(i - 1, den)) % den

\* what is left of r / den after its first n binary digits, r < den
Remainder(r, den, n) ==
  (r * Pow2Mod(n, den)) % den

\* the first n binary digits of r / den, r < den
Expansion(r, den, n) ==
  [ i \in 1..n |-> IF 2 * Remainder(r, den, i - 1) >= den THEN 1 ELSE 0 ]

\* a / b for integers a >= 0, b > 0
Divide(a, b) ==
  RoundToDouble(a \div b, Expansion(a % b, b, ExpansionBits),
                Remainder(a % b, b, ExpansionBits) # 0)

\* n + x for an integer n >= 0 and a double x
Add(n, x) ==
  RoundToDouble(n + x.int, x.frac, FALSE)

\* binary place i of a fraction, 0 beyond its last bit
BitAt(bits, i) ==
  IF i <= Len(bits) THEN bits[i] ELSE 0

\* the carry into binary place i of 0.xbits + 0.ybits
RECURSIVE PlusCarry(_, _, _)
PlusCarry(xbits, ybits, i) ==
  IF i >= Len(xbits) /\ i >= Len(ybits) THEN 0
  ELSE (BitAt(xbits, i + 1) + BitAt(ybits, i + 1)
          + PlusCarry(xbits, ybits, i + 1)) \div 2

\* x + y for two doubles
Plus(x, y) ==
  LET places == IF Len(x.frac) > Len(y.frac) THEN Len(x.frac) ELSE Len(y.frac)
  IN  RoundToDouble(x.int + y.int + PlusCarry(x.frac, y.frac, 0),
                    [ i \in 1..places |->
                        (BitAt(x.frac, i) + BitAt(y.frac, i)
                           + PlusCarry(x.frac, y.frac, i)) % 2 ],
                    FALSE)

\* the carry into binary place i of k * 0.bits
RECURSIVE CarryInto(_, _, _)
CarryInto(bits, k, i) ==
  IF i = Len(bits) THEN 0
  ELSE (k * bits[i + 1] + CarryInto(bits, k, i + 1)) \div 2

\* x * k for a double x and an integer k >= 0
Multiply(x, k) ==
  RoundToDouble(k * x.int + CarryInto(x.frac, k, 0),
                [ i \in 1..Len(x.frac) |->
                    (k * x.frac[i] + CarryInto(x.frac, k, i)) % 2 ],
                FALSE)

\* the double of an integer n >= 0
FromInteger(n) ==
  [ int |-> n, frac |-> << >> ]

-----------------------------------------------------------------------------
(* The duration codec                                                      *)

\* dur.split(':')
RECURSIVE Split(_)
Split(str) ==
  IF \A i \in 1..Len(str) : str[i] # ":" THEN << str >>
  ELSE LET c == CHOOSE i \in 1..Len(str) :
                  str[i] = ":" /\ \A j \in 1..(i - 1) : str[j] # ":"
       IN  << SubSeq(str, 1, c - 1) >> \o Split(SubSeq(str, c + 1, Len(str)))

\* Number(text) for the decimal numerals formatTime writes
ToNumber(text) ==
  DigitsValue(text, Len(text))

\* PerformanceGraph.tsx parseDurationToMinutes
parseDurationToMinutes(dur) ==
  LET fields == Split(dur)
      parts  == [ i \in 1..Len(fields) |-> ToNumber(fields[i]) ]
  IN  IF Len(parts) = 3
      THEN Add(parts[1] * 60 + parts[2], Divide(parts[3], 60))
      ELSE IF Len(parts) = 2
           THEN Add(parts[1], Divide(parts[2], 60))
           ELSE FromInteger(0)

-----------------------------------------------------------------------------
(* The wall clock.  Day 0 is 30 December 2025; the window crosses a month  *)
(* and a year boundary.                                                    *)

Days ==
  0..MaxDay

CivilDate(day) ==
  LET d == 30 + day
  IN  IF d <= 31 THEN [year |-> 2025, month |-> "December", day |-> d]
      ELSE [year |-> 2026, month |-> "January", day |-> d - 31]

\* toLocaleDateString('en-GB', {day:'2-digit', month:'long', year:'numeric'})
DateLabel(day) ==
  LET c == CivilDate(day)
  IN  padStart2(NatToString(c.day)) \o <<" ", c.month, " ">> \o NatToString(c.year)

-----------------------------------------------------------------------------
(* Projects, subtasks and ledger entries                                   *)

\* the date input's empty value / an absent recurrenceEndDate
NoDate ==
  -1

\* String.prototype.trim() leaves nothing
IsBlank(str) ==
  \A i \in 1..Len(str) : str[i] = " "

\* String.prototype.trim over the blank character of the model
trim(str) ==
  IF IsBlank(str) THEN << >>
  ELSE LET first == CHOOSE i \in 1..Len(str) :
                      str[i] # " " /\ \A j \in 1..(i - 1) : str[j] = " "
           last  == CHOOSE i \in 1..Len(str) :
                      str[i] # " " /\ \A j \in (i + 1)..Len(str) : str[j] = " "
       IN  SubSeq(str, first, last)

ProjectIdsOf(ps) ==
  { ps[i].id : i \in 1..Len(ps) }

SubtaskIdsOf(p) ==
  { p.subtasks[i].id : i \in 1..Len(p.subtasks) }

AllSubtaskIds(ps) ==
  UNION { SubtaskIdsOf(ps[i]) : i \in 1..Len(ps) }

\* projects.find(p => p.id === id); only used when the id is present
FindProject(ps, id) ==
  ps[CHOOSE i \in 1..Len(ps) : ps[i].id = id]

\* completedSessions of subtask tid wherever it lives, -1 when it is gone
CompletedOf(ps, tid) ==
  IF \E i \in 1..Len(ps) : tid \in SubtaskIdsOf(ps[i])
  THEN LET p == ps[CHOOSE i \in 1..Len(ps) : tid \in SubtaskIdsOf(ps[i])]
       IN  p.subtasks[CHOOSE j \in 1..Len(p.subtasks) : p.subtasks[j].id = tid]
             .completedSessions
  ELSE -1

\* updateSubtaskProgress stopping at the subtask's target
updateSubtaskProgress_Capped(prev, projectId, subtaskId) ==
  LET bump(t) == IF t.id # subtaskId \/ t.completedSessions >= t.targetSessions
                 THEN t
                 ELSE [t EXCEPT !.completedSessions = t.completedSessions + 1]
      upd(p)  == IF p.id # projectId THEN p
                 ELSE [p EXCEPT !.subtasks =
                         [j \in 1..Len(p.subtasks) |-> bump(p.subtasks[j])]]
  IN  [i \in 1..Len(prev) |-> upd(prev[i])]

\* App.tsx updateSubtaskProgress, as a function of the previous project list
updateSubtaskProgress(prev, projectId, subtaskId) ==
  LET bump(t) == IF t.id # subtaskId THEN t
                 ELSE [t EXCEPT !.completedSessions = t.completedSessions + 1]
      upd(p)  == IF p.id # projectId THEN p
                 ELSE [p EXCEPT !.subtasks =
                         [j \in 1..Len(p.subtasks) |-> bump(p.subtasks[j])]]
  IN  [i \in 1..Len(prev) |-> upd(prev[i])]

-----------------------------------------------------------------------------
(* The timer                                                               *)

\* the effect of App.tsx:104-107: it re-derives timeLeft when timerMode
\* changed or the settings.durations object was replaced; otherwise the
\* value the handler assigned stands
RederiveTimeLeft(assigned, newSettings, newMode, durationsReplaced) ==
  IF durationsReplaced \/ newMode # timerMode
  THEN ModeSeconds(newSettings, newMode)
  ELSE assigned

\* the countdown effect has a completion to run (App.tsx:113)
EffectPending ==
  isActive /\ timeLeft = 0

\* the countdown effect without its cleanup function
CountdownEffect_NoCleanup ==
  liveIntervals' =
    IF isActive' = isActive /\ timeLeft' = timeLeft THEN liveIntervals
    ELSE liveIntervals + (IF isActive' /\ timeLeft' > 0 THEN 1 ELSE 0)

\* the countdown effect of App.tsx:109-117 as it re-runs after a commit that
\* changed isActive or timeLeft: the cleanup clears the interval the previous
\* run created (it created one when isActive and timeLeft > 0), then the
\* body may create a new one; the completion branch is TimerCompleteEffect
CountdownEffect ==
  liveIntervals' =
    IF isActive' = isActive /\ timeLeft' = timeLeft THEN liveIntervals
    ELSE LET created == IF isActive /\ timeLeft > 0 THEN 1 ELSE 0
             cleared == IF liveIntervals >= created
                        THEN liveIntervals - created ELSE 0
         IN  cleared + (IF isActive' /\ timeLeft' > 0 THEN 1 ELSE 0)

\* NextBreakMode reading the count of the render instead of the new count
NextBreakMode_StaleCount(nextPomoCount) ==
  IF pomoCount % 4 = 0 THEN LONG_BREAK ELSE SHORT_BREAK

\* App.tsx:142
NextBreakMode(nextPomoCount) ==
  IF nextPomoCount % 4 = 0 THEN LONG_BREAK ELSE SHORT_BREAK

\* NewLog crediting the seconds that actually elapsed
NewLog_Elapsed ==
  [ date      |-> DateLabel(today),
    duration  |-> formatTime(settings.durations.pomodoro * 60 - timeLeft),
    projectId |-> selectedProjectId,
    subtaskId |-> activeSubtaskId ]

\* App.tsx:130-136
NewLog ==
  [ date      |-> DateLabel(today),
    duration  |-> formatTime(settings.durations.pomodoro * 60),
    projectId |-> selectedProjectId,
    subtaskId |-> activeSubtaskId ]

\* App.tsx:140
ProjectsAfterPomodoro ==
  IF activeSubtaskId # null /\ selectedProjectId # null
  THEN updateSubtaskProgress(projects, selectedProjectId, activeSubtaskId)
  ELSE projects

\* ActiveAfterComplete with the two auto-start flags swapped
ActiveAfterComplete_Swapped ==
  IF timerMode = POMODORO THEN settings.autoStartPomodoros
  ELSE settings.autoStartBreaks

\* App.tsx:146 and App.tsx:150: setIsActive(false), then the auto-start
ActiveAfterComplete ==
  IF timerMode = POMODORO THEN settings.autoStartBreaks
  ELSE settings.autoStartPomodoros

\* handleTimerComplete counting the completed breaks as well
handleTimerComplete_CountingBreaks ==
  LET nextPomoCount == pomoCount + 1
      nextMode == IF timerMode = POMODORO THEN NextBreakMode(nextPomoCount)
                  ELSE POMODORO
  IN  /\ pomoCount < MaxPomo
      /\ pomoCount' = nextPomoCount
      /\ appHistory' = IF timerMode = POMODORO THEN Append(appHistory, NewLog)
                       ELSE appHistory
      /\ projects' = IF timerMode = POMODORO THEN ProjectsAfterPomodoro
                     ELSE projects
      /\ timerMode' = nextMode
      /\ timeLeft' = RederiveTimeLeft(ModeSeconds(settings, nextMode),
                                      settings, nextMode, FALSE)
      /\ isActive' = ActiveAfterComplete
      /\ UNCHANGED << dayNotes, dayAgendas, selectedProjectId,
                      activeSubtaskId, settings, idCounter, today >>
      /\ alerts' = << >>
      /\ CountdownEffect

\* App.tsx handleTimerComplete
handleTimerComplete ==
  IF timerMode = POMODORO
  THEN LET nextPomoCount == pomoCount + 1
           nextMode == NextBreakMode(nextPomoCount)
           nextTime == IF nextMode = LONG_BREAK
                       THEN settings.durations.longBreak * 60
                       ELSE settings.durations.shortBreak * 60
       IN  /\ pomoCount < MaxPomo
           /\ pomoCount' = nextPomoCount
           /\ appHistory' = Append(appHistory, NewLog)
           /\ projects' = ProjectsAfterPomodoro
           /\ timerMode' = nextMode
           /\ timeLeft' = RederiveTimeLeft(nextTime, settings, nextMode, FALSE)
           /\ isActive' = ActiveAfterComplete
           /\ UNCHANGED << dayNotes, dayAgendas, selectedProjectId,
                           activeSubtaskId, settings, idCounter, today >>
           /\ alerts' = << >>
           /\ CountdownEffect
  ELSE /\ timerMode' = POMODORO
       /\ timeLeft' = RederiveTimeLeft(settings.durations.pomodoro * 60,
                                       settings, POMODORO, FALSE)
       /\ isActive' = ActiveAfterComplete
       /\ UNCHANGED << projects, appHistory, dayNotes, dayAgendas,
                       selectedProjectId, activeSubtaskId, settings,
                       pomoCount, idCounter, today >>
       /\ alerts' = << >>
       /\ CountdownEffect

\* Tick without the timeLeft > 0 test of the countdown effect
Tick_Unguarded ==
  /\ isActive
  /\ timeLeft' = timeLeft - 1
  /\ UNCHANGED << projects, appHistory, dayNotes, dayAgendas,
                  selectedProjectId, activeSubtaskId, settings, timerMode,
                  isActive, pomoCount, idCounter, today >>
  /\ alerts' = << >>
  /\ CountdownEffect

\* the interval callback of App.tsx:112, run by a live interval
Tick ==
  /\ liveIntervals > 0
  /\ timeLeft' = timeLeft - 1
  /\ UNCHANGED << projects, appHistory, dayNotes, dayAgendas,
                  selectedProjectId, activeSubtaskId, settings, timerMode,
                  isActive, pomoCount, idCounter, today >>
  /\ alerts' = << >>
  /\ CountdownEffect

\* the else-branch of the countdown effect, App.tsx:113-114
TimerCompleteEffect ==
  /\ timeLeft = 0 /\ isActive
  /\ handleTimerComplete

\* App.tsx toggleTimer
toggleTimer ==
  /\ ~EffectPending
  /\ isActive' = ~isActive
  /\ UNCHANGED << projects, appHistory, dayNotes, dayAgendas,
                  selectedProjectId, activeSubtaskId, settings, timerMode,
                  timeLeft, pomoCount, idCounter, today >>
  /\ alerts' = << >>
  /\ CountdownEffect

\* App.tsx skipTimer
skipTimer ==
  /\ ~EffectPending
  /\ handleTimerComplete

\* ResetSeconds always reloading the pomodoro duration
ResetSeconds_Pomodoro ==
  settings.durations.pomodoro * 60

\* the value resetTimer passes to setTimeLeft, App.tsx:170-171
ResetSeconds ==
  ModeSeconds(settings, timerMode)

\* App.tsx resetTimer
resetTimer ==
  /\ ~EffectPending
  /\ isActive' = FALSE
  /\ timeLeft' = ResetSeconds
  /\ UNCHANGED << projects, appHistory, dayNotes, dayAgendas,
                  selectedProjectId, activeSubtaskId, settings, timerMode,
                  pomoCount, idCounter, today >>
  /\ alerts' = << >>
  /\ CountdownEffect

\* the mode selector's onClick, App.tsx:528
SwitchMode(mode) ==
  /\ ~EffectPending
  /\ isActive' = FALSE
  /\ timerMode' = mode
  /\ timeLeft' = RederiveTimeLeft(timeLeft, settings, mode, FALSE)
  /\ UNCHANGED << projects, appHistory, dayNotes, dayAgendas,
                  selectedProjectId, activeSubtaskId, settings, pomoCount,
                  idCounter, today >>
  /\ alerts' = << >>
  /\ CountdownEffect

-----------------------------------------------------------------------------
(* The settings modal                                                      *)

\* the stored value of a duration input
DurationFromInput(text) ==
  parseIntOr1(text)

\* the duration inputs' onChange, App.tsx:645
SetDuration(key, text) ==
  /\ ~EffectPending
  /\ settings' = [settings EXCEPT !.durations[key] = DurationFromInput(text)]
  /\ timeLeft' = RederiveTimeLeft(timeLeft, settings', timerMode, TRUE)
  /\ UNCHANGED << projects, appHistory, dayNotes, dayAgendas,
                  selectedProjectId, activeSubtaskId, timerMode, isActive,
                  pomoCount, idCounter, today >>
  /\ alerts' = << >>
  /\ CountdownEffect

\* the daily target input's onChange, App.tsx:655; the durations object is
\* kept, so the re-derivation effect does not run
SetDailyPomodoroTarget(text) ==
  /\ ~EffectPending
  /\ settings' = [settings EXCEPT !.dailyPomodoroTarget = parseIntOr1(text)]
  /\ UNCHANGED << projects, appHistory, dayNotes, dayAgendas,
                  selectedProjectId, activeSubtaskId, timerMode, timeLeft,
                  isActive, pomoCount, idCounter, today >>
  /\ alerts' = << >>
  /\ CountdownEffect

-----------------------------------------------------------------------------
(* Projects and subtasks                                                   *)

\* ids of the subtasks a new project gets: generateId is called for the
\* project first and then once per kept subtask
NewSubtasks(kept, firstId) ==
  [ i \in 1..Len(kept) |->
      [ id |-> firstId + i,
        name |-> kept[i].name,
        targetSessions |-> kept[i].target,
        completedSessions |-> 0 ] ]

\* App.tsx handleAddProject; form is the content of the add-project modal
handleAddProject(form) ==
  LET named(st)   == ~IsBlank(st.name)
      invalid(st) == named(st) /\ (st.importance = "" \/ st.urgency = "")
      kept        == SelectSeq(form.subtasks, named)
      newProject  ==
        [ id |-> idCounter + 1,
          name |-> form.name,
          createdAt |-> today,
          isDaily |-> form.isDaily,
          recurrenceEndDate |-> IF form.isDaily THEN form.recurrenceEnd ELSE NoDate,
          subtasks |-> NewSubtasks(kept, idCounter + 1) ]
      rejection   ==
        IF form.isDaily /\ form.recurrenceEnd = NoDate
        THEN << "Please select a recurrence end date for daily projects." >>
        ELSE IF \E i \in 1..Len(form.subtasks) : invalid(form.subtasks[i])
             THEN << "Please select Importance and Urgency for all items." >>
             ELSE << >>
  IN  /\ ~EffectPending
      /\ ~IsBlank(form.name)
      /\ alerts' = rejection
      /\ IF rejection # << >>
         THEN UNCHANGED << projects, selectedProjectId, idCounter >>
         ELSE /\ idCounter + 1 + Len(kept) <= MaxIds
              /\ idCounter' = idCounter + 1 + Len(kept)
              /\ projects' = Append(projects, newProject)
              /\ selectedProjectId' =
                   IF selectedProjectId = null THEN newProject.id
                   ELSE selectedProjectId
      /\ UNCHANGED << appHistory, dayNotes, dayAgendas, activeSubtaskId,
                      settings, timerMode, timeLeft, isActive, pomoCount,
                      today >>
      /\ CountdownEffect

\* the project card's onClick (App.tsx:449), handleActivateProject and the
\* matrix selector all call setSelectedProjectId with a listed project
SelectProject(id) ==
  /\ ~EffectPending
  /\ id \in ProjectIdsOf(projects)
  /\ selectedProjectId' = id
  /\ UNCHANGED << projects, appHistory, dayNotes, dayAgendas, activeSubtaskId,
                  settings, timerMode, timeLeft, isActive, pomoCount,
                  idCounter, today >>
  /\ alerts' = << >>
  /\ CountdownEffect

\* DeleteProject also purging the ledger entries of the deleted project
DeleteProject_Cascade(id) ==
  LET keep(p) == p.id # id
      kept(e) == e.projectId # id
  IN  /\ ~EffectPending
      /\ id \in ProjectIdsOf(projects)
      /\ projects' = SelectSeq(projects, keep)
      /\ appHistory' = SelectSeq(appHistory, kept)
      /\ selectedProjectId' = IF selectedProjectId = id THEN null
                              ELSE selectedProjectId
      /\ UNCHANGED << dayNotes, dayAgendas, activeSubtaskId, settings,
                      timerMode, timeLeft, isActive, pomoCount, idCounter,
                      today >>
      /\ alerts' = << >>
      /\ CountdownEffect

\* the project card's delete button, App.tsx:458
DeleteProject(id) ==
  LET keep(p) == p.id # id
  IN  /\ ~EffectPending
      /\ id \in ProjectIdsOf(projects)
      /\ projects' = SelectSeq(projects, keep)
      /\ selectedProjectId' = IF selectedProjectId = id THEN null
                              ELSE selectedProjectId
      /\ UNCHANGED << appHistory, dayNotes, dayAgendas, activeSubtaskId,
                      settings, timerMode, timeLeft, isActive, pomoCount,
                      idCounter, today >>
      /\ alerts' = << >>
      /\ CountdownEffect

\* the subtask list shows the subtasks of the selected project (App.tsx:376)
SelectedProjectListed ==
  selectedProjectId \in ProjectIdsOf(projects)

\* App.tsx handleUpdateProject; form is editProjectData as submitted, opened
\* by the edit button of the selected project (App.tsx:556)
handleUpdateProject(form) ==
  LET rejection ==
        IF form.isDaily /\ form.recurrenceEnd = NoDate
        THEN << "Please select a recurrence end date for daily projects." >>
        ELSE << >>
      upd(p) == IF p.id # form.id THEN p
                ELSE [p EXCEPT !.name = form.name,
                               !.isDaily = form.isDaily,
                               !.recurrenceEndDate =
                                  IF form.isDaily THEN form.recurrenceEnd
                                  ELSE NoDate]
  IN  /\ ~EffectPending
      /\ SelectedProjectListed
      /\ form.id = selectedProjectId
      /\ ~IsBlank(form.name)
      /\ alerts' = rejection
      /\ projects' = IF rejection # << >> THEN projects
                     ELSE [i \in 1..Len(projects) |-> upd(projects[i])]
      /\ UNCHANGED << appHistory, dayNotes, dayAgendas, selectedProjectId,
                      activeSubtaskId, settings, timerMode, timeLeft,
                      isActive, pomoCount, idCounter, today >>
      /\ CountdownEffect

\* the subtask card's onClick, App.tsx:582
SelectSubtask(tid) ==
  /\ ~EffectPending
  /\ SelectedProjectListed
  /\ tid \in SubtaskIdsOf(FindProject(projects, selectedProjectId))
  /\ activeSubtaskId' = tid
  /\ UNCHANGED << projects, appHistory, dayNotes, dayAgendas,
                  selectedProjectId, settings, timerMode, timeLeft, isActive,
                  pomoCount, idCounter, today >>
  /\ alerts' = << >>
  /\ CountdownEffect

\* the subtask card's delete button, App.tsx:604
DeleteSubtask(tid) ==
  LET keep(t) == t.id # tid
      upd(p)  == IF p.id # selectedProjectId THEN p
                 ELSE [p EXCEPT !.subtasks = SelectSeq(p.subtasks, keep)]
  IN  /\ ~EffectPending
      /\ SelectedProjectListed
      /\ tid \in SubtaskIdsOf(FindProject(projects, selectedProjectId))
      /\ projects' = [i \in 1..Len(projects) |-> upd(projects[i])]
      /\ UNCHANGED << appHistory, dayNotes, dayAgendas, selectedProjectId,
                      activeSubtaskId, settings, timerMode, timeLeft,
                      isActive, pomoCount, idCounter, today >>
      /\ alerts' = << >>
      /\ CountdownEffect

\* App.tsx:287, `targetSessions: subtaskForm.target`
EditedTarget(t, form) ==
  form.target

\* App.tsx handleUpdateSubtask; tid is editingSubtask.id (openEditSubtask is
\* called from the subtask list of the selected project, App.tsx:603) and
\* form the content of the edit-subtask modal as submitted
handleUpdateSubtask(tid, form) ==
  LET rejection ==
        IF form.importance = "" \/ form.urgency = ""
        THEN << "Please select Importance and Urgency." >>
        ELSE << >>
      edit(t) == IF t.id # tid THEN t
                 ELSE [t EXCEPT !.name = trim(form.name),
                                !.targetSessions = EditedTarget(t, form)]
      upd(p)  == IF tid \notin SubtaskIdsOf(p) THEN p
                 ELSE [p EXCEPT !.subtasks =
                         [i \in 1..Len(p.subtasks) |-> edit(p.subtasks[i])]]
  IN  /\ ~EffectPending
      /\ SelectedProjectListed
      /\ tid \in SubtaskIdsOf(FindProject(projects, selectedProjectId))
      /\ ~IsBlank(form.name)
      /\ alerts' = rejection
      /\ projects' = IF rejection # << >> THEN projects
                     ELSE [i \in 1..Len(projects) |-> upd(projects[i])]
      /\ UNCHANGED << appHistory, dayNotes, dayAgendas, selectedProjectId,
                      activeSubtaskId, settings, timerMode, timeLeft,
                      isActive, pomoCount, idCounter, today >>
      /\ CountdownEffect

\* App.tsx:330-332
NewTarget(t, increment) ==
  LET newTarget == t.targetSessions + increment
      floored   == IF newTarget < t.completedSessions
                   THEN t.completedSessions ELSE newTarget
  IN  IF floored < 1 THEN 1 ELSE floored

\* the minus button of a subtask card is disabled, App.tsx:600
MinusDisabled(t) ==
  t.targetSessions <= t.completedSessions \/ t.targetSessions <= 1

\* App.tsx updateSessionTarget, called by the plus and minus buttons of the
\* subtask cards of the selected project (App.tsx:600-601)
updateSessionTarget(projectId, subtaskId, increment) ==
  LET adjust(t) == IF t.id # subtaskId THEN t
                   ELSE [t EXCEPT !.targetSessions = NewTarget(t, increment)]
      upd(p)    == IF p.id # projectId THEN p
                   ELSE [p EXCEPT !.subtasks =
                           [i \in 1..Len(p.subtasks) |-> adjust(p.subtasks[i])]]
  IN  /\ ~EffectPending
      /\ SelectedProjectListed
      /\ projectId = selectedProjectId
      /\ \E i \in 1..Len(FindProject(projects, projectId).subtasks) :
           LET t == FindProject(projects, projectId).subtasks[i]
           IN  t.id = subtaskId /\ (increment < 0 => ~MinusDisabled(t))
      /\ projects' = [i \in 1..Len(projects) |-> upd(projects[i])]
      /\ UNCHANGED << appHistory, dayNotes, dayAgendas, selectedProjectId,
                      activeSubtaskId, settings, timerMode, timeLeft,
                      isActive, pomoCount, idCounter, today >>
      /\ alerts' = << >>
      /\ CountdownEffect

-----------------------------------------------------------------------------
(* Import                                                                  *)

MaxOf(S) ==
  IF S = {} THEN 0 ELSE CHOOSE x \in S : \A y \in S : y <= x

\* handleImport keeping the projects of a snapshot and nothing else
Imported_ProjectsOnly(json, key, old) ==
  IF key = "projects" /\ key \in DOMAIN json THEN json[key] ELSE old

\* handleImport resetting absent settings to the defaults
Imported_Defaulting(json, key, old) ==
  IF key \in DOMAIN json THEN json[key]
  ELSE IF key = "settings" THEN DEFAULT_SETTINGS ELSE old

\* the value of a state hook after `if (json.key) setKey(json.key)`
Imported(json, key, old) ==
  IF key \in DOMAIN json THEN json[key] ELSE old

\* a catch block that swallows the error
ImportFailureAlerts_Silent ==
  << >>

\* the catch block of handleImport, App.tsx:370
ImportFailureAlerts ==
  << "Failed to parse JSON file." >>

\* App.tsx handleImport with reader.onload; file is the text of the chosen
\* file: unparseable, or the JSON object it parses to (a record that has
\* some of the keys projects, appHistory, dayNotes, dayAgendas, settings)
handleImport(file) ==
  /\ ~EffectPending
  /\ IF ~file.parseable
     THEN /\ alerts' = ImportFailureAlerts
          /\ UNCHANGED << projects, appHistory, dayNotes, dayAgendas,
                          selectedProjectId, activeSubtaskId, settings,
                          timerMode, timeLeft, isActive, pomoCount,
                          idCounter, today >>
     ELSE LET json == file.json
          IN  /\ projects' = Imported(json, "projects", projects)
              /\ selectedProjectId' =
                   IF "projects" \in DOMAIN json /\ Len(json.projects) > 0
                   THEN json.projects[1].id
                   ELSE selectedProjectId
              /\ appHistory' = Imported(json, "appHistory", appHistory)
              /\ dayNotes' = Imported(json, "dayNotes", dayNotes)
              /\ dayAgendas' = Imported(json, "dayAgendas", dayAgendas)
              /\ settings' = Imported(json, "settings", settings)
              /\ timeLeft' = RederiveTimeLeft(timeLeft, settings', timerMode,
                                              "settings" \in DOMAIN json)
              /\ idCounter' =
                   IF "projects" \in DOMAIN json
                   THEN MaxOf({idCounter} \cup ProjectIdsOf(json.projects)
                                \cup AllSubtaskIds(json.projects))
                   ELSE idCounter
              /\ UNCHANGED << activeSubtaskId, timerMode, isActive, pomoCount,
                              today >>
              /\ alerts' = << >>
  /\ CountdownEffect

\* the properties JSON.stringify leaves out when their value is undefined,
\* with the model's value for undefined
ProjectOptional ==
  [ recurrenceEndDate |-> NoDate ]

LogOptional ==
  [ projectId |-> null, subtaskId |-> null ]

\* obj.key as JavaScript reads it: undefined when the object lacks the key
Get(obj, key, optional) ==
  IF key \in DOMAIN obj THEN obj[key] ELSE optional[key]

\* JSON.parse(JSON.stringify(obj)) for a flat object: the properties whose
\* value is undefined are gone
JSONObject(obj, optional) ==
  [ k \in { key \in DOMAIN obj :
              ~(key \in DOMAIN optional /\ obj[key] = optional[key]) }
      |-> obj[k] ]

\* JSON.parse(JSON.stringify(data)) for an AppData object
JSONRoundTrip(data) ==
  [ k \in DOMAIN data |->
      IF k = "projects"
      THEN [ i \in 1..Len(data[k]) |-> JSONObject(data[k][i], ProjectOptional) ]
      ELSE IF k = "appHistory"
           THEN [ i \in 1..Len(data[k]) |-> JSONObject(data[k][i], LogOptional) ]
           ELSE data[k] ]

\* dataToExport without the day notes
dataToExport_NoDayNotes ==
  [ projects |-> projects, appHistory |-> appHistory,
    dayAgendas |-> dayAgendas, settings |-> settings ]

\* App.tsx:340-346
dataToExport ==
  [ projects |-> projects, appHistory |-> appHistory, dayNotes |-> dayNotes,
    dayAgendas |-> dayAgendas, settings |-> settings ]

\* App.tsx handleExport: the backup file it downloads, as handleImport reads
\* it back
handleExport ==
  [ parseable |-> TRUE, json |-> JSONRoundTrip(dataToExport) ]

\* onUpdateDayNote, App.tsx:507; date is the calendar day the note is for
onUpdateDayNote(date, note) ==
  /\ ~EffectPending
  /\ dayNotes' = [ k \in DOMAIN dayNotes \cup {date} |->
                     IF k = date THEN note ELSE dayNotes[k] ]
  /\ UNCHANGED << projects, appHistory, dayAgendas, selectedProjectId,
                  activeSubtaskId, settings, timerMode, timeLeft, isActive,
                  pomoCount, idCounter, today >>
  /\ alerts' = << >>
  /\ CountdownEffect

\* onUpdateDayAgenda, App.tsx:509-512
onUpdateDayAgenda(date, hour, text) ==
  LET old == IF date \in DOMAIN dayAgendas THEN dayAgendas[date] ELSE << >>
      new == [ h \in DOMAIN old \cup {hour} |->
                 IF h = hour THEN text ELSE old[h] ]
  IN  /\ ~EffectPending
      /\ dayAgendas' = [ k \in DOMAIN dayAgendas \cup {date} |->
                           IF k = date THEN new ELSE dayAgendas[k] ]
      /\ UNCHANGED << projects, appHistory, dayNotes, selectedProjectId,
                      activeSubtaskId, settings, timerMode, timeLeft,
                      isActive, pomoCount, idCounter, today >>
      /\ alerts' = << >>
      /\ CountdownEffect

-----------------------------------------------------------------------------
(* The plan: calendar projection and Gantt layout of non-daily projects    *)

\* Math.floor(a / b) and Math.ceil(a / b) of two integers, b not 0
Floor(a, b) ==
  IF b > 0 THEN a \div b ELSE (-a) \div (-b)

Ceil(a, b) ==
  -Floor(-a, b)

\* subtasks.reduce((sum, s) => sum + s.targetSessions, 0) over the first n
RECURSIVE SumTargetSessions(_, _)
SumTargetSessions(subtasks, n) ==
  IF n = 0 THEN 0
  ELSE SumTargetSessions(subtasks, n - 1) + subtasks[n].targetSessions

\* settings.dailyPomodoroTarget || 6, MonthlyCalendar.tsx:103 and
\* GanttTimeline.tsx:20
dailyTarget(s) ==
  IF s.dailyPomodoroTarget = 0 THEN 6 ELSE s.dailyPomodoroTarget

\* MonthlyCalendar.tsx:142-144, the days a non-daily project is dotted
CalendarDurationDays(p, s) ==
  LET sum       == SumTargetSessions(p.subtasks, Len(p.subtasks))
      totalPoms == IF sum <= 0 THEN 1 ELSE sum
  IN  Ceil(totalPoms, dailyTarget(s))

\* GanttTimeline.tsx:252-253 (and 39-40), the days of the project bar
GanttDurationDays(p, s) ==
  Ceil(SumTargetSessions(p.subtasks, Len(p.subtasks)), dailyTarget(s))

\* GanttTimeline.tsx:111-113, the days of the project row of the export
ExportTotalDurationDays(p, s) ==
  LET totalTarget == SumTargetSessions(p.subtasks, Len(p.subtasks))
  IN  Ceil(totalTarget, dailyTarget(s))

\* GanttTimeline.tsx:293-300: taskStartDays and taskDurationDays of the i-th
\* subtask bar are the fractions num / den
taskStartDays(p, i, s) ==
  [ num |-> SumTargetSessions(p.subtasks, i - 1), den |-> dailyTarget(s) ]

taskDurationDays(p, i, s) ==
  [ num |-> p.subtasks[i].targetSessions, den |-> dailyTarget(s) ]

\* GanttTimeline.tsx:156-157 and 186: the day columns of the i-th subtask
\* row of the export are taskStartOffset .. taskStartOffset + duration - 1
ExportTaskStartOffset(p, i, s) ==
  Floor(SumTargetSessions(p.subtasks, i - 1), dailyTarget(s))

ExportTaskDurationDays(p, i, s) ==
  Ceil(p.subtasks[i].targetSessions, dailyTarget(s))

-----------------------------------------------------------------------------
(* The Gantt date axis; a date is the number of its local calendar day     *)

\* the count < 365 of the axis loop, GanttTimeline.tsx:52
AxisCap ==
  365

MinOf(S) ==
  CHOOSE x \in S : \A y \in S : x <= y

\* visibleProjects without the isDaily filter
visibleProjects_All(ps) ==
  ps

\* GanttTimeline.tsx:22, the rows of the chart
visibleProjects(ps) ==
  LET planned(p) == ~p.isDaily
  IN  SelectSeq(ps, planned)

\* the while loop of GanttTimeline.tsx:49-56: it runs while current has
\* not passed maxEnd and fewer than AxisCap days were pushed, and its i-th
\* pass pushes the day i - 1 days after minStart
AxisDays(minStart, maxEnd) ==
  LET upTo   == maxEnd - minStart + 1
      passes == IF upTo < 0 THEN 0
                ELSE IF upTo < AxisCap THEN upTo ELSE AxisCap
  IN  [ i \in 1..passes |-> minStart + (i - 1) ]

\* GanttTimeline.tsx:31-59; now is the day of new Date() and Date.now()
timelineRange(ps, s, now) ==
  LET vis == visibleProjects(ps)
  IN  IF Len(vis) = 0
      THEN [ start |-> now, end |-> now, days |-> << >> ]
      ELSE LET startDates == { vis[i].createdAt : i \in 1..Len(vis) }
               minStart   == MinOf(startDates)
               endDates   == { vis[i].createdAt + GanttDurationDays(vis[i], s) :
                                 i \in 1..Len(vis) }
               maxEnd     == MaxOf(endDates \cup {now + 7})
           IN  [ start |-> minStart, end |-> maxEnd,
                 days |-> AxisDays(minStart, maxEnd) ]

\* Array.prototype.findIndex with the toDateString comparison of
\* GanttTimeline.tsx:246 and 251
findIndex(days, day) ==
  IF \E i \in 1..Len(days) : days[i] = day
  THEN (CHOOSE i \in 1..Len(days) :
          days[i] = day /\ \A j \in 1..(i - 1) : days[j] # day) - 1
  ELSE -1

\* the index that places the today line, GanttTimeline.tsx:246
todayIdx(ps, s, now) ==
  findIndex(timelineRange(ps, s, now).days, now)

-----------------------------------------------------------------------------
(* The calendar's daily-recurring projection, as computed when the         *)
(* calendar is opened (its `today` is read once per mount,                 *)
(* MonthlyCalendar.tsx:65-69)                                              *)

\* hours the local clock of the browser is ahead of UTC
TimezoneOffsets ==
  {-5, 0, 2}

\* new Date("YYYY-MM-DD") is midnight UTC of that civil day, and
\* setHours(0, 0, 0, 0) moves it to the midnight of the local day that
\* instant falls in (MonthlyCalendar.tsx:111-112)
LocalDayOfDateOnly(day, tz) ==
  Floor(day * 24 + tz, 24)

\* utils.ts getDailyProjectCompletion
getDailyProjectCompletion(projectId, dateStr, history) ==
  Cardinality({ i \in 1..Len(history) :
                  /\ Get(history[i], "projectId", LogOptional) = projectId
                  /\ history[i].date = dateStr })

\* MonthlyCalendar.tsx:109-138: the status of project p's dot on local day
\* d in a browser tz hours ahead of UTC, "none" when the day gets no dot
\* of the daily-recurring branch
DailyStatus(p, d, tz) ==
  LET recurrenceEndDate == Get(p, "recurrenceEndDate", ProjectOptional)
      start  == p.createdAt
      end    == LocalDayOfDateOnly(recurrenceEndDate, tz)
      done   == getDailyProjectCompletion(p.id, DateLabel(d), appHistory)
      target == SumTargetSessions(p.subtasks, Len(p.subtasks))
  IN  IF ~(p.isDaily /\ recurrenceEndDate # NoDate) THEN "none"
      ELSE IF d < start \/ d > end THEN "none"
      ELSE IF d <= today
           THEN (IF done >= target THEN "success"
                 ELSE IF d < today THEN "failed" ELSE "pending")
           ELSE "pending"

\* midnight passes
DayPasses ==
  /\ ~EffectPending
  /\ today < MaxDay
  /\ today' = today + 1
  /\ UNCHANGED << projects, appHistory, dayNotes, dayAgendas,
                  selectedProjectId, activeSubtaskId, settings, timerMode,
                  timeLeft, isActive, pomoCount, idCounter >>
  /\ alerts' = << >>
  /\ CountdownEffect

-----------------------------------------------------------------------------
(* The ledger's minutes per date label: the calendar's historyMap and the  *)
(* performance chart's dailyAggregates.  A JavaScript object keyed by date *)
(* label is a function on the labels (the calendar's map) or, where the    *)
(* order of insertion is read back, the sequence of its entries in that    *)
(* order (the chart's aggregates).                                         *)

MonthNames ==
  << "January", "February", "March", "April", "May", "June", "July",
     "August", "September", "October", "November", "December" >>

\* the keys of the months table of PerformanceGraph.tsx:163-166, in the
\* order of their values 0..11
ShortMonths ==
  << <<"J", "a", "n">>, <<"F", "e", "b">>, <<"M", "a", "r">>,
     <<"A", "p", "r">>, <<"M", "a", "y">>, <<"J", "u", "n">>,
     <<"J", "u", "l">>, <<"A", "u", "g">>, <<"S", "e", "p">>,
     <<"O", "c", "t">>, <<"N", "o", "v">>, <<"D", "e", "c">> >>

\* a Date whose time value is NaN
InvalidDate ==
  [ valid |-> FALSE, year |-> 0, month |-> 0, day |-> 0 ]

\* new Date(year, month, day) for a day of that month: local midnight
LocalDate(year, month, day) ==
  [ valid |-> TRUE, year |-> year, month |-> month, day |-> day ]

\* new Date(0), in a zone east of Greenwich or on it
Epoch ==
  LocalDate(1970, 0, 1)

\* String.prototype.slice(from, to) for 0 <= from <= to
Slice(str, from, to) ==
  SubSeq(str, from + 1, IF to < Len(str) THEN to ELSE Len(str))

\* new Date(dateStr) on a date label: the long form "04 December 2025" is
\* read as that local day, anything else gives an invalid Date.  (An engine
\* that reads the compact form "04Dec25" here reads the day the fallback of
\* parseDate computes.)
DateFromString(dateStr) ==
  IF /\ Len(dateStr) = 9
     /\ \A i \in {1, 2, 6, 7, 8, 9} : IsDigit(dateStr[i])
     /\ dateStr[3] = " " /\ dateStr[5] = " "
     /\ \E m \in 1..12 : MonthNames[m] = dateStr[4]
  THEN LocalDate(DigitsValue(Slice(dateStr, 5, 9), 4),
                 (CHOOSE m \in 1..12 : MonthNames[m] = dateStr[4]) - 1,
                 DigitsValue(Slice(dateStr, 0, 2), 2))
  ELSE InvalidDate

\* PerformanceGraph.tsx:153-171.  No statement of the try block throws on a
\* string, so the catch that returns new Date(0) is never entered: NaN for
\* the day or the year makes new Date(year, month, day) an invalid Date
parseDate(dateStr) ==
  LET date == DateFromString(dateStr)
  IN  IF date.valid THEN date
      ELSE LET day      == parseInt(Slice(dateStr, 0, 2))
               monthStr == Slice(dateStr, 2, 5)
               year     == parseInt(Slice(dateStr, 5, Len(dateStr)))
               month    == IF \E m \in 1..12 : ShortMonths[m] = monthStr
                           THEN (CHOOSE m \in 1..12 :
                                   ShortMonths[m] = monthStr) - 1
                           ELSE 0
           IN  IF day.isNaN \/ year.isNaN THEN InvalidDate
               ELSE LocalDate(2000 + year.value, month, day.value)

\* Date.prototype.getTime, up to an order-preserving change of scale
getTime(date) ==
  (date.year * 12 + date.month) * 31 + date.day

\* the minutes of one entry with the three-part test dropped
CalendarMinutes_FirstPart(duration) ==
  ToNumber(Split(duration)[1])

\* MonthlyCalendar.tsx:94-95, the minutes the calendar reads from a duration
CalendarMinutes(duration) ==
  LET fields == Split(duration)
      parts  == [ i \in 1..Len(fields) |-> ToNumber(fields[i]) ]
  IN  IF Len(parts) = 3 THEN parts[1] * 60 + parts[2] ELSE parts[1]

\* MonthlyCalendar.tsx:91-99 after the first n entries of history
RECURSIVE historyMap(_, _)
historyMap(history, n) ==
  IF n = 0 THEN << >>
  ELSE LET map  == historyMap(history, n - 1)
           log  == history[n]
           mins == CalendarMinutes(log.duration)
           old  == IF log.date \in DOMAIN map THEN map[log.date] ELSE 0
       IN  [ date \in DOMAIN map \cup {log.date} |->
               IF date = log.date THEN old + mins ELSE map[date] ]

\* the position of the entry of a date label among the aggregates, 0 when
\* the label has none (the test of PerformanceGraph.tsx:178)
AggregateOf(aggregates, date) ==
  IF \E k \in 1..Len(aggregates) : aggregates[k].date = date
  THEN CHOOSE k \in 1..Len(aggregates) : aggregates[k].date = date
  ELSE 0

\* dailyAggregates replacing the minutes of a date instead of adding to them
RECURSIVE dailyAggregates_Overwrite(_, _)
dailyAggregates_Overwrite(data, n) ==
  IF n = 0 THEN << >>
  ELSE LET aggregates == dailyAggregates_Overwrite(data, n - 1)
           log  == data[n]
           mins == parseDurationToMinutes(log.duration)
           k    == AggregateOf(aggregates, log.date)
       IN  IF k # 0
           THEN [aggregates EXCEPT ![k].minutes = mins]
           ELSE Append(aggregates, [ date |-> log.date, minutes |-> mins,
                                    dateObj |-> parseDate(log.date) ])

\* PerformanceGraph.tsx:174-183 after the first n entries of data
RECURSIVE dailyAggregates(_, _)
dailyAggregates(data, n) ==
  IF n = 0 THEN << >>
  ELSE LET aggregates == dailyAggregates(data, n - 1)
           log  == data[n]
           mins == parseDurationToMinutes(log.duration)
           k    == AggregateOf(aggregates, log.date)
       IN  IF k # 0
           THEN [aggregates EXCEPT ![k].minutes = Plus(@, mins)]
           ELSE Append(aggregates, [ date |-> log.date, minutes |-> mins,
                                    dateObj |-> parseDate(log.date) ])

\* the toLocaleDateString('en-US', {month: 'long', year: 'numeric'}) key of
\* a date, PerformanceGraph.tsx:192
monthKey(dateObj) ==
  [ year |-> dateObj.year, month |-> dateObj.month ]

\* Array.prototype.sort by ascending time of the first n of items: the sort
\* is stable, an item goes behind the items that are not later than it
RECURSIVE SortByTime(_, _)
SortByTime(items, n) ==
  IF n = 0 THEN << >>
  ELSE LET sorted == SortByTime(items, n - 1)
           item   == items[n]
           before == Cardinality({ i \in 1..Len(sorted) :
                                     getTime(sorted[i].dateObj)
                                       <= getTime(item.dateObj) })
       IN  SubSeq(sorted, 1, before) \o << item >>
             \o SubSeq(sorted, before + 1, Len(sorted))

\* PerformanceGraph.tsx:186-214: the aggregates with a valid date, by month
\* key, each month sorted by date
groups(data) ==
  LET aggregates == dailyAggregates(data, Len(data))
      dated(item) == item.dateObj.valid
      shown == SelectSeq(aggregates, dated)
      keys  == { monthKey(shown[k].dateObj) : k \in 1..Len(shown) }
  IN  [ key \in keys |->
          LET ofMonth(item) == monthKey(item.dateObj) = key
              pushed == SelectSeq(shown, ofMonth)
              items  == [ k \in 1..Len(pushed) |->
                            [ dateObj |-> pushed[k].dateObj,
                              minutes |-> pushed[k].minutes ] ]
          IN  SortByTime(items, Len(items)) ]

\* PerformanceGraph.tsx:217-219: new Date("December 2025") is the first day
\* of the month, and no two keys name the same month
sortedMonthKeys(data) ==
  LET keys == DOMAIN groups(data)
      time(key) == getTime(LocalDate(key.year, key.month, 1))
  IN  CHOOSE order \in [1..Cardinality(keys) -> keys] :
        \A i \in 1..Cardinality(keys), j \in 1..Cardinality(keys) :
          i < j => time(order[i]) < time(order[j])

-----------------------------------------------------------------------------
(* The timer from construction: every second of every countdown            *)

\* the useState initialisers of App.tsx:46-57
Init ==
  /\ projects = << >>
  /\ appHistory = << >>
  /\ dayNotes = << >>
  /\ dayAgendas = << >>
  /\ selectedProjectId = null
  /\ activeSubtaskId = null
  /\ settings = DEFAULT_SETTINGS
  /\ timerMode = POMODORO
  /\ timeLeft = DEFAULT_SETTINGS.durations.pomodoro * 60
  /\ isActive = FALSE
  /\ pomoCount = 0
  /\ idCounter = 0
  /\ today = 0
  /\ liveIntervals = 0
  /\ alerts = << >>
  /\ lastOp = "construct"

\* backup files that carry nothing but a settings object
SettingsFiles ==
  { [ parseable |-> TRUE,
      json |-> [ settings |-> [ DEFAULT_SETTINGS EXCEPT
                                  !.autoStartBreaks = b,
                                  !.autoStartPomodoros = p ] ] ]
    : b \in BOOLEAN, p \in BOOLEAN }

Next ==
  \/ Tick /\ lastOp' = "Tick"
  \/ TimerCompleteEffect /\ lastOp' = "TimerCompleteEffect"
  \/ toggleTimer /\ lastOp' = "toggleTimer"
  \/ skipTimer /\ lastOp' = "skipTimer"
  \/ resetTimer /\ lastOp' = "resetTimer"
  \/ \E mode \in TimerMode : SwitchMode(mode) /\ lastOp' = "SwitchMode"
  \/ \E file \in SettingsFiles : handleImport(file) /\ lastOp' = "handleImport"

Spec ==
  Init /\ [][Next]_vars

-----------------------------------------------------------------------------
(* The settings modal and the timer between two completions                *)

\* what the user types into a number input: nothing, "0", "-1", "1", "1.5"
NumberInputs ==
  { << >>, <<"0">>, <<"-", "1">>, <<"1">>, <<"1", ".", "5">> }

SettingsNext ==
  \/ Tick /\ lastOp' = "Tick"
  \/ toggleTimer /\ lastOp' = "toggleTimer"
  \/ resetTimer /\ lastOp' = "resetTimer"
  \/ \E mode \in TimerMode : SwitchMode(mode) /\ lastOp' = "SwitchMode"
  \/ \E key \in DurationKeys, text \in NumberInputs :
       SetDuration(key, text) /\ lastOp' = "SetDuration"
  \/ \E text \in NumberInputs :
       SetDailyPomodoroTarget(text) /\ lastOp' = "SetDailyPomodoroTarget"

SettingsSpec ==
  Init /\ [][SettingsNext]_vars

-----------------------------------------------------------------------------
(* Projects, attribution and the ledger.  Countdowns are followed through  *)
(* their last TickWindow seconds only: the first initial state is the      *)
(* constructed application, the second the same application TickWindow     *)
(* seconds before its first pomodoro runs out; the application is started  *)
(* on the first or on the last day of the calendar window.                 *)

\* ledger entries a run may hold
MaxLedger ==
  2

ValidSubtaskForm ==
  [ name |-> <<"t">>, target |-> 1, importance |-> "important",
    urgency |-> "emergent" ]

\* the add-project modal as submitted: a blank name, a daily project without
\* an end date, a subtask without urgency (all three rejected), a project
\* without subtasks, and a project with one subtask and one blank row
ProjectForms ==
  { [ name |-> <<" ">>, isDaily |-> FALSE, recurrenceEnd |-> NoDate,
      subtasks |-> << ValidSubtaskForm >> ],
    [ name |-> <<"A">>, isDaily |-> TRUE, recurrenceEnd |-> NoDate,
      subtasks |-> << ValidSubtaskForm >> ],
    [ name |-> <<"A">>, isDaily |-> FALSE, recurrenceEnd |-> NoDate,
      subtasks |-> << [ValidSubtaskForm EXCEPT !.urgency = ""] >> ],
    [ name |-> <<"A">>, isDaily |-> FALSE, recurrenceEnd |-> NoDate,
      subtasks |-> << >> ],
    [ name |-> <<"A">>, isDaily |-> FALSE, recurrenceEnd |-> NoDate,
      subtasks |-> << [ValidSubtaskForm EXCEPT !.name = <<" ">>],
                      ValidSubtaskForm >> ] }

\* what handleExport writes for a freshly constructed application
FreshBackup ==
  [ projects |-> << >>, appHistory |-> << >>, dayNotes |-> << >>,
    dayAgendas |-> << >>, settings |-> DEFAULT_SETTINGS ]

BackupFiles ==
  { [ parseable |-> FALSE ],
    [ parseable |-> TRUE, json |-> FreshBackup ] }

\* the settings as constructed, or after the pomodoro field of the settings
\* modal was set to 1
LedgerSettings ==
  { DEFAULT_SETTINGS, [DEFAULT_SETTINGS EXCEPT !.durations.pomodoro = 1] }

LedgerInit ==
  /\ projects = << >>
  /\ appHistory = << >>
  /\ dayNotes = << >>
  /\ dayAgendas = << >>
  /\ selectedProjectId = null
  /\ activeSubtaskId = null
  /\ settings \in LedgerSettings
  /\ timerMode = POMODORO
  /\ \/ timeLeft = settings.durations.pomodoro * 60 /\ isActive = FALSE
     \/ timeLeft = TickWindow /\ isActive = TRUE
  /\ pomoCount = 0
  /\ idCounter = 0
  /\ today = MaxDay
  /\ liveIntervals = (IF isActive THEN 1 ELSE 0)
  /\ alerts = << >>
  /\ lastOp = "construct"

\* the bounds of this specification on the ledger and the pomodoro count;
\* lastOp tells completions, resets and imports apart and calls every other
\* handler an edit
LedgerRoom ==
  Len(appHistory) <= MaxLedger /\ pomoCount <= MaxLedger

LedgerNext ==
  \/ Tick /\ timeLeft <= TickWindow /\ lastOp' = "Tick"
  \/ TimerCompleteEffect /\ LedgerRoom' /\ lastOp' = "TimerCompleteEffect"
  \/ skipTimer /\ LedgerRoom' /\ lastOp' = "skipTimer"
  \/ resetTimer /\ lastOp' = "resetTimer"
  \/ SetDuration("pomodoro", <<"2", "5">>) /\ lastOp' = "edit"
  \/ \E form \in ProjectForms :
       handleAddProject(form) /\ lastOp' = "edit"
  \/ \E id \in 1..MaxIds : SelectProject(id) /\ lastOp' = "edit"
  \/ \E id \in 1..MaxIds : DeleteProject(id) /\ lastOp' = "edit"
  \/ \E tid \in 1..MaxIds : SelectSubtask(tid) /\ lastOp' = "edit"
  \/ \E tid \in 1..MaxIds : DeleteSubtask(tid) /\ lastOp' = "edit"
  \/ \E file \in BackupFiles : handleImport(file) /\ lastOp' = "handleImport"

LedgerSpec ==
  LedgerInit /\ [][LedgerNext]_vars

-----------------------------------------------------------------------------
(* Backups: export and import over an application that has projects, a     *)
(* ledger, day notes, an agenda and edited settings                        *)

\* the add-project modal as submitted: a project with one subtask, and a
\* daily project that recurs until the last day of the window
ImportForms ==
  { [ name |-> <<"A">>, isDaily |-> FALSE, recurrenceEnd |-> NoDate,
      subtasks |-> << ValidSubtaskForm >> ],
    [ name |-> <<"D">>, isDaily |-> TRUE, recurrenceEnd |-> MaxDay,
      subtasks |-> << >> ] }

\* settings of another installation
ForeignSettings ==
  [ DEFAULT_SETTINGS EXCEPT !.dailyPomodoroTarget = 2 ]

\* a complete backup of another installation: one project, one ledger entry
ForeignBackup ==
  [ projects |-> << [ id |-> MaxIds, name |-> <<"F">>, createdAt |-> 0,
                      isDaily |-> FALSE, subtasks |-> << >> ] >>,
    appHistory |-> << [ date |-> DateLabel(0),
                        duration |-> <<"5", "0", ":", "0", "0">>,
                        projectId |-> MaxIds ] >>,
    dayNotes |-> << >>,
    dayAgendas |-> << >>,
    settings |-> ForeignSettings ]

\* the files offered to the import dialog: not JSON, a snapshot with an
\* empty project list and nothing else, a snapshot with settings only, and
\* a complete snapshot
ImportFiles ==
  { [ parseable |-> FALSE ],
    [ parseable |-> TRUE, json |-> [ projects |-> << >> ] ],
    [ parseable |-> TRUE, json |-> [ settings |-> ForeignSettings ] ],
    [ parseable |-> TRUE, json |-> ForeignBackup ] }

ImportNext ==
  \/ skipTimer /\ LedgerRoom' /\ lastOp' = "skipTimer"
  \/ SetDailyPomodoroTarget(<<"3">>) /\ lastOp' = "edit"
  \/ \E form \in ImportForms : handleAddProject(form) /\ lastOp' = "edit"
  \/ \E tid \in 1..MaxIds : SelectSubtask(tid) /\ lastOp' = "edit"
  \/ onUpdateDayNote(0, <<"n">>) /\ lastOp' = "edit"
  \/ onUpdateDayAgenda(0, "08:00", <<"a">>) /\ lastOp' = "edit"
  \/ \E file \in ImportFiles : handleImport(file) /\ lastOp' = "handleImport"
  \/ handleImport(handleExport) /\ lastOp' = "handleImport"

ImportSpec ==
  Init /\ [][ImportNext]_vars

-----------------------------------------------------------------------------
(* Planning: projects are added, their subtasks worked on, and the targets *)
(* adjusted with the plus and minus buttons and the edit-subtask modal     *)

\* the highest target the plus button is followed to
MaxTarget ==
  3

\* the add-project modal as submitted: no named subtask row; one subtask of
\* target 1; two subtasks whose target fields were typed "2" and "-2"
PlanForms ==
  { [ name |-> <<"A">>, isDaily |-> FALSE, recurrenceEnd |-> NoDate,
      subtasks |-> << [ValidSubtaskForm EXCEPT !.name = <<" ">>] >> ],
    [ name |-> <<"A">>, isDaily |-> FALSE, recurrenceEnd |-> NoDate,
      subtasks |-> << ValidSubtaskForm >> ],
    [ name |-> <<"A">>, isDaily |-> FALSE, recurrenceEnd |-> NoDate,
      subtasks |-> << [ValidSubtaskForm EXCEPT !.target = parseIntOr1(<<"2">>)],
                      [ValidSubtaskForm EXCEPT
                         !.target = parseIntOr1(<<"-", "2">>)] >> ] }

\* the edit-subtask modal as submitted: the target field typed "1", "3" or
\* "-1" with both selectors chosen, and a form without importance
SubtaskForms ==
  { [ValidSubtaskForm EXCEPT !.target = parseIntOr1(text)] :
      text \in { <<"1">>, <<"3">>, <<"-", "1">> } }
  \cup { [ValidSubtaskForm EXCEPT !.importance = ""] }

PlanNext ==
  \/ \E text \in { <<"1">>, <<"2">> } :
       SetDailyPomodoroTarget(text) /\ lastOp' = "edit"
  \/ \E form \in PlanForms : handleAddProject(form) /\ lastOp' = "edit"
  \/ \E id \in 1..MaxIds : SelectProject(id) /\ lastOp' = "edit"
  \/ \E tid \in 1..MaxIds : SelectSubtask(tid) /\ lastOp' = "edit"
  \/ skipTimer /\ LedgerRoom' /\ lastOp' = "skipTimer"
  \/ \E tid \in 1..MaxIds, increment \in {-1, 1} :
       /\ updateSessionTarget(selectedProjectId, tid, increment)
       /\ \A i \in 1..Len(projects') : \A j \in 1..Len(projects'[i].subtasks) :
            projects'[i].subtasks[j].targetSessions <= MaxTarget
       /\ lastOp' = "updateSessionTarget"
  \/ \E tid \in 1..MaxIds, form \in SubtaskForms :
       handleUpdateSubtask(tid, form) /\ lastOp' = "handleUpdateSubtask"

PlanSpec ==
  Init /\ [][PlanNext]_vars

-----------------------------------------------------------------------------
(* Progress: pomodoros completed on the subtasks of projects while their   *)
(* targets are moved by the buttons and by the edit-subtask form           *)

\* the add-project modal as submitted: a project of one subtask, or of none
ProgressForms ==
  { [ name |-> <<"A">>, isDaily |-> FALSE, recurrenceEnd |-> NoDate,
      subtasks |-> subtasks ] :
      subtasks \in { << >>, << ValidSubtaskForm >> } }

ProgressNext ==
  \/ \E form \in ProgressForms : handleAddProject(form) /\ lastOp' = "edit"
  \/ \E id \in 1..MaxIds : SelectProject(id) /\ lastOp' = "edit"
  \/ \E tid \in 1..MaxIds : SelectSubtask(tid) /\ lastOp' = "edit"
  \/ skipTimer /\ LedgerRoom' /\ lastOp' = "skipTimer"
  \/ \E tid \in 1..MaxIds, increment \in {-1, 1} :
       /\ updateSessionTarget(selectedProjectId, tid, increment)
       /\ \A i \in 1..Len(projects') : \A j \in 1..Len(projects'[i].subtasks) :
            projects'[i].subtasks[j].targetSessions <= MaxTarget
       /\ lastOp' = "updateSessionTarget"
  \/ \E tid \in 1..MaxIds, form \in SubtaskForms :
       handleUpdateSubtask(tid, form) /\ lastOp' = "handleUpdateSubtask"

ProgressSpec ==
  Init /\ [][ProgressNext]_vars

-----------------------------------------------------------------------------
(* Daily projects: created with an end date, worked on, over the days of   *)
(* the calendar window                                                     *)

\* the add-project modal as submitted for a daily project: one subtask of
\* target 1 or no subtask, and any day of the window as the end date
DailyForms ==
  { [ name |-> <<"D">>, isDaily |-> TRUE, recurrenceEnd |-> end,
      subtasks |-> subtasks ] :
      end \in Days, subtasks \in { << >>, << ValidSubtaskForm >> } }

\* the edit-project modal as submitted: daily or not, and any day of the
\* window or nothing as the end date
ProjectEdits ==
  { [ id |-> id, name |-> <<"D">>, isDaily |-> isDaily,
      recurrenceEnd |-> end ] :
      id \in 1..MaxIds, isDaily \in BOOLEAN, end \in Days \cup {NoDate} }

CalendarNext ==
  \/ \E form \in DailyForms : handleAddProject(form) /\ lastOp' = "edit"
  \/ \E id \in 1..MaxIds : SelectProject(id) /\ lastOp' = "edit"
  \/ skipTimer /\ LedgerRoom' /\ lastOp' = "skipTimer"
  \/ DayPasses /\ lastOp' = "DayPasses"
  \/ \E form \in ProjectEdits :
       handleUpdateProject(form) /\ lastOp' = "handleUpdateProject"

CalendarSpec ==
  Init /\ [][CalendarNext]_vars

-----------------------------------------------------------------------------
(* Durations: the countdown runs through every second of a pomodoro of one *)
(* minute and of one of more than an hour, so that the display shows both  *)
(* mm:ss and hh:mm:ss                                                      *)

\* the longest pomodoro typed into the settings modal, in minutes
MaxMinutes ==
  61

CodecNext ==
  \/ \E minutes \in {1, MaxMinutes} :
       SetDuration("pomodoro", NumberToString(minutes)) /\ lastOp' = "edit"
  \/ toggleTimer /\ lastOp' = "toggleTimer"
  \/ Tick /\ lastOp' = "Tick"
  \/ TimerCompleteEffect /\ LedgerRoom' /\ lastOp' = "TimerCompleteEffect"

CodecSpec ==
  Init /\ [][CodecNext]_vars

-----------------------------------------------------------------------------
(* Cycles: one-minute pomodoros and breaks on a project with an active     *)
(* subtask, every second of every countdown                                *)

\* the application after the three durations were set to 1 minute, project
\* A with one subtask was added and the subtask was clicked
CycleInit ==
  /\ projects = << [ id |-> 1, name |-> <<"A">>, createdAt |-> 0,
                     isDaily |-> FALSE, recurrenceEndDate |-> NoDate,
                     subtasks |-> << [ id |-> 2, name |-> <<"t">>,
                                       targetSessions |-> 1,
                                       completedSessions |-> 0 ] >> ] >>
  /\ appHistory = << >>
  /\ dayNotes = << >>
  /\ dayAgendas = << >>
  /\ selectedProjectId = 1
  /\ activeSubtaskId = 2
  /\ settings = [DEFAULT_SETTINGS EXCEPT
                   !.durations = [pomodoro |-> 1, shortBreak |-> 1,
                                  longBreak |-> 1]]
  /\ timerMode = POMODORO
  /\ timeLeft = 60
  /\ isActive = FALSE
  /\ pomoCount = 0
  /\ idCounter = 2
  /\ today = 0
  /\ liveIntervals = 0
  /\ alerts = << >>
  /\ lastOp = "construct"

CycleNext ==
  \/ Tick /\ lastOp' = "Tick"
  \/ TimerCompleteEffect /\ LedgerRoom' /\ lastOp' = "TimerCompleteEffect"
  \/ toggleTimer /\ lastOp' = "toggleTimer"
  \/ skipTimer /\ LedgerRoom' /\ lastOp' = "skipTimer"
  \/ resetTimer /\ lastOp' = "resetTimer"
  \/ \E mode \in TimerMode : SwitchMode(mode) /\ lastOp' = "SwitchMode"
  \/ \E key \in DurationKeys :
       SetDuration(key, <<"1">>) /\ lastOp' = "SetDuration"
  \/ SetDailyPomodoroTarget(<<"3">>) /\ lastOp' = "SetDailyPomodoroTarget"
  \/ handleImport([parseable |-> TRUE, json |-> [projects |-> << >>]])
       /\ lastOp' = "handleImport"

CycleSpec ==
  CycleInit /\ [][CycleNext]_vars

-----------------------------------------------------------------------------
(* The Gantt view over projects of any age: projects added today, projects *)
(* restored from a backup written up to a year ago, projects turned daily  *)
(* and back, and the daily target edited                                   *)

\* the age in days of the oldest project of a backup file
MaxAge ==
  365

\* the add-project modal as submitted: a planned project without subtasks
\* or with one subtask of 1 or 7 sessions
GanttForms ==
  { [ name |-> <<"A">>, isDaily |-> FALSE, recurrenceEnd |-> NoDate,
      subtasks |-> subtasks ] :
      subtasks \in { << >> } \cup
                   { << [ValidSubtaskForm EXCEPT !.target = target] >> :
                       target \in {1, 7} } }

\* a project of a backup file, created age days before day 0
GanttProject(id, age, daily, subtasks) ==
  [ id |-> id, name |-> <<"O">>, createdAt |-> 0 - age, isDaily |-> daily,
    recurrenceEndDate |-> IF daily THEN 0 ELSE NoDate,
    subtasks |-> subtasks ]

\* backups of one project with one subtask, planned or daily, and a backup
\* of a daily project with a younger planned one
GanttFiles ==
  LET subtask == [ id |-> 2, name |-> <<"t">>, targetSessions |-> 1,
                   completedSessions |-> 0 ]
  IN  { [ parseable |-> TRUE,
          json |-> [ projects |->
                       << GanttProject(1, age, daily, << subtask >>) >> ] ] :
          age \in {1, AxisCap - 8, AxisCap - 7, MaxAge}, daily \in BOOLEAN }
      \cup
      { [ parseable |-> TRUE,
          json |-> [ projects |->
                       << GanttProject(1, MaxAge, TRUE, << subtask >>),
                          GanttProject(3, AxisCap - 7, FALSE, << >>) >> ] ] }

\* the edit-project modal as submitted: turned daily with the last day of
\* the window as its end, or turned back into a planned project
GanttEdits ==
  { [ id |-> id, name |-> <<"A">>, isDaily |-> isDaily,
      recurrenceEnd |-> IF isDaily THEN MaxDay ELSE NoDate ] :
      id \in 1..MaxIds, isDaily \in BOOLEAN }

GanttNext ==
  \/ \E form \in GanttForms : handleAddProject(form) /\ lastOp' = "edit"
  \/ \E file \in GanttFiles : handleImport(file) /\ lastOp' = "handleImport"
  \/ \E id \in 1..MaxIds : SelectProject(id) /\ lastOp' = "edit"
  \/ \E id \in 1..MaxIds : DeleteProject(id) /\ lastOp' = "edit"
  \/ \E form \in GanttEdits :
       handleUpdateProject(form) /\ lastOp' = "handleUpdateProject"
  \/ \E text \in { <<"1">>, <<"-", "2">> } :
       SetDailyPomodoroTarget(text) /\ lastOp' = "edit"
  \/ DayPasses /\ lastOp' = "DayPasses"

GanttSpec ==
  Init /\ [][GanttNext]_vars

-----------------------------------------------------------------------------
(* The ledger as the calendar and the performance chart read it: entries   *)
(* written by pomodoros of 25 minutes and of more than an hour, on both    *)
(* days of the window, and ledgers restored from backups                   *)

\* a ledger entry of a backup file
ChartLog(date, duration) ==
  [ date |-> date, duration |-> duration, projectId |-> null,
    subtaskId |-> null ]

\* the ledgers of the backup files: "25:00" and "1:05:00" on one date;
\* durations with seconds; a long-form December label, a compact December
\* label and a November label, latest first; a label that is no date
ChartLedgers ==
  LET december30 == DateLabel(0)
      december04 == <<"0", "4", "D", "e", "c", "2", "5">>
      november02 == <<"0", "2", " ", "November", " ", "2", "0", "2", "5">>
      noDate     == <<"?", "?">>
  IN  { << ChartLog(december30, <<"2", "5", ":", "0", "0">>),
           ChartLog(december30, <<"1", ":", "0", "5", ":", "0", "0">>) >>,
        << ChartLog(december30, <<"2", "5", ":", "3", "0">>),
           ChartLog(december30, <<"0", "0", ":", "4", "5">>) >>,
        << ChartLog(december30, <<"2", "5", ":", "0", "0">>),
           ChartLog(december04, <<"1", "0", ":", "0", "0">>),
           ChartLog(november02, <<"0", "5", ":", "0", "0">>) >>,
        << ChartLog(noDate, <<"2", "5", ":", "0", "0">>),
           ChartLog(december30, <<"2", "5", ":", "0", "0">>) >> }

ChartNext ==
  \/ \E minutes \in {25, MaxMinutes} :
       SetDuration("pomodoro", NumberToString(minutes)) /\ lastOp' = "edit"
  \/ skipTimer /\ LedgerRoom' /\ lastOp' = "skipTimer"
  \/ DayPasses /\ lastOp' = "DayPasses"
  \/ \E ledger \in ChartLedgers :
       /\ handleImport([parseable |-> TRUE, json |-> [appHistory |-> ledger]])
       /\ lastOp' = "handleImport"

ChartSpec ==
  Init /\ [][ChartNext]_vars

-----------------------------------------------------------------------------
(* The unattended timer: the user has typed the durations, chosen the      *)
(* auto-start flags and pressed start, and touches nothing afterwards.     *)
(* Only the interval callback and the countdown effect run.                *)

\* what the duration inputs of the settings modal can hold, App.tsx:645
UnattendedMinutes ==
  {DurationFromInput(<<"1">>), DurationFromInput(<<"-", "1">>)}

UnattendedInit ==
  /\ projects = << >>
  /\ appHistory = << >>
  /\ dayNotes = << >>
  /\ dayAgendas = << >>
  /\ selectedProjectId = null
  /\ activeSubtaskId = null
  /\ \E pomodoro \in UnattendedMinutes, shortBreak \in UnattendedMinutes,
        breaks \in BOOLEAN, pomodoros \in BOOLEAN :
        settings = [DEFAULT_SETTINGS EXCEPT
                      !.durations = [pomodoro |-> pomodoro,
                                     shortBreak |-> shortBreak,
                                     longBreak |-> 1],
                      !.autoStartBreaks = breaks,
                      !.autoStartPomodoros = pomodoros]
  /\ timerMode = POMODORO
  /\ timeLeft = ModeSeconds(settings, POMODORO)
  /\ isActive = TRUE
  /\ pomoCount = 0
  /\ idCounter = 0
  /\ today = 0
  /\ liveIntervals = IF timeLeft > 0 THEN 1 ELSE 0
  /\ alerts = << >>
  /\ lastOp = "toggleTimer"

\* one call of the interval callback
UnattendedTick ==
  Tick /\ lastOp' = "Tick"

\* one run of the countdown effect's completion branch
UnattendedComplete ==
  TimerCompleteEffect /\ lastOp' = "TimerCompleteEffect"

UnattendedNext ==
  \/ UnattendedTick
  \/ UnattendedComplete

\* setInterval keeps calling a live interval's callback, and React runs the
\* countdown effect after every commit that changed isActive or timeLeft
UnattendedSpec ==
  /\ UnattendedInit
  /\ [][UnattendedNext]_vars
  /\ WF_vars(UnattendedTick)
  /\ WF_vars(UnattendedComplete)

-----------------------------------------------------------------------------
(* Properties                                                              *)

\* lastOp after a completion, by the countdown or by skip
Completions ==
  {"TimerCompleteEffect", "skipTimer"}

IsPrefix(s, t) ==
  Len(s) <= Len(t) /\ \A i \in 1..Len(s) : t[i] = s[i]

\* C1: every pomodoro completion, by the countdown or by skip, increments
\* the count to n and moves to long_break when n mod 4 = 0 and to
\* short_break otherwise; every break completion moves to pomodoro.
C1_NextMode ==
  [][ lastOp' \in Completions =>
        IF timerMode = POMODORO
        THEN /\ pomoCount' = pomoCount + 1
             /\ timerMode' = IF pomoCount' % 4 = 0 THEN LONG_BREAK
                             ELSE SHORT_BREAK
        ELSE timerMode' = POMODORO ]_vars

\* the fourth pomodoro was counted down to 0 and a long break follows
C1_Witness ==
  /\ lastOp = "TimerCompleteEffect"
  /\ pomoCount = 4
  /\ timerMode = LONG_BREAK

\* C2, as specified: a pomodoro completion while the active subtask is set (and
\* still exists) appends one ledger entry, adds 1 to that subtask's
\* completedSessions and leaves every other subtask's counter unchanged, for
\* every combination of selected project and active subtask.
C2_Attribution ==
  [][ ( /\ lastOp' \in Completions
        /\ timerMode = POMODORO
        /\ activeSubtaskId \in AllSubtaskIds(projects) ) =>
        /\ Len(appHistory') = Len(appHistory) + 1
        /\ CompletedOf(projects', activeSubtaskId)
             = CompletedOf(projects, activeSubtaskId) + 1
        /\ \A tid \in AllSubtaskIds(projects) \ {activeSubtaskId} :
             CompletedOf(projects', tid) = CompletedOf(projects, tid) ]_vars

\* C3: a tick fires only while the timer is active with timeLeft > 0, takes
\* exactly one second off and never leaves timeLeft negative.
C3_TickMonotone ==
  [][ lastOp' = "Tick" =>
        /\ isActive /\ timeLeft > 0
        /\ timeLeft' = timeLeft - 1
        /\ timeLeft' >= 0 ]_vars

\* a countdown was ticked all the way down
C3_Witness ==
  lastOp = "Tick" /\ isActive /\ timeLeft = 0

\* C4, as specified: every duration and the daily target are >= 1 after any
\* settings edit, and timeLeft is never negative.
C4_Clamped ==
  /\ \A key \in DurationKeys : settings.durations[key] >= 1
  /\ settings.dailyPomodoroTarget >= 1
  /\ timeLeft >= 0

\* C5, as specified: a duration edit re-derives timeLeft for the current mode
\* while the timer is inactive and leaves the countdown alone while it runs.
C5_DurationEdit ==
  [][ lastOp' = "SetDuration" =>
        timeLeft' = IF isActive THEN timeLeft
                    ELSE ModeSeconds(settings', timerMode) ]_vars

\* C6, as specified: switchMode(m) stops the timer, makes m the mode and loads
\* the configured duration of m, for every m including the current mode,
\* and leaves the pomodoro count, the ledger and the projects unchanged.
C6_SwitchMode ==
  [][ \A mode \in TimerMode :
        (lastOp' = "SwitchMode" /\ SwitchMode(mode)) =>
          /\ ~isActive'
          /\ timerMode' = mode
          /\ timeLeft' = ModeSeconds(settings, mode)
          /\ UNCHANGED << pomoCount, appHistory, projects >> ]_vars

\* C7: resetTimer stops the timer and reloads the configured duration of the
\* current mode; the mode, the pomodoro count, the ledger and every subtask
\* counter stay as they are.
C7_Reset ==
  [][ lastOp' = "resetTimer" =>
        /\ ~isActive'
        /\ timeLeft' = settings.durations[durationKey(timerMode)] * 60
        /\ UNCHANGED << timerMode, pomoCount, appHistory, projects,
                        settings >> ]_vars

\* a break was reset while the ledger and a subtask counter were not empty
C7_Witness ==
  /\ lastOp = "resetTimer"
  /\ timerMode = SHORT_BREAK
  /\ ~isActive
  /\ timeLeft = settings.durations.shortBreak * 60
  /\ appHistory # << >>
  /\ \E tid \in AllSubtaskIds(projects) : CompletedOf(projects, tid) > 0

C9_AutoStart ==
  lastOp \in Completions =>
    isActive = IF timerMode = POMODORO THEN settings.autoStartPomodoros
               ELSE settings.autoStartBreaks

\* a break was skipped and the next pomodoro started by itself
C9_Witness ==
  /\ lastOp = "skipTimer"
  /\ timerMode = POMODORO
  /\ isActive
  /\ settings.autoStartPomodoros /\ ~settings.autoStartBreaks

\* C10: except in an import, every step leaves the old ledger as a prefix
\* of the new one and adds at most one entry, and it adds one exactly when
\* it is the completion of a pomodoro.
C10_AppendOnly ==
  [][ lastOp' # "handleImport" =>
        /\ IsPrefix(appHistory, appHistory')
        /\ Len(appHistory') <= Len(appHistory) + 1
        /\ (Len(appHistory') = Len(appHistory) + 1)
             <=> (lastOp' \in Completions /\ timerMode = POMODORO) ]_vars

\* an entry outlives the deletion of the project and subtask it names
C10_Witness ==
  /\ lastOp = "edit"
  /\ \E i \in 1..Len(appHistory) :
       /\ appHistory[i].projectId # null
       /\ appHistory[i].projectId \notin ProjectIdsOf(projects)
       /\ appHistory[i].subtaskId # null
       /\ appHistory[i].subtaskId \notin AllSubtaskIds(projects)

C12_ImportFrame ==
  [][ \A file \in ImportFiles :
        (lastOp' = "handleImport" /\ file.parseable /\ handleImport(file)) =>
          /\ "settings" \notin DOMAIN file.json => settings' = settings
          /\ ("projects" \in DOMAIN file.json /\ file.json.projects = << >>)
               => projects' = << >> ]_vars

\* projects existed and the settings were edited; the import emptied the
\* list and kept the settings
C12_Witness ==
  /\ lastOp = "handleImport"
  /\ projects = << >>
  /\ idCounter > 0
  /\ settings = [DEFAULT_SETTINGS EXCEPT !.dailyPomodoroTarget = 3]

SnapshotKeys ==
  {"projects", "appHistory", "settings"}

\* C13, as specified: after the import of any parseable snapshot it is never
\* the case that some of projects, ledger and settings are the snapshot's
\* while the others still are those of before the import.
C13_NoPartialMerge ==
  [][ \A file \in ImportFiles :
        (lastOp' = "handleImport" /\ file.parseable /\ handleImport(file)) =>
          LET now  == [ projects |-> projects', appHistory |-> appHistory',
                        settings |-> settings' ]
              was  == [ projects |-> projects, appHistory |-> appHistory,
                        settings |-> settings ]
              replaced(k) == k \in DOMAIN file.json /\ now[k] = file.json[k]
              retained(k) == k \notin DOMAIN file.json /\ now[k] = was[k]
          IN  ~ \E k1, k2 \in SnapshotKeys : replaced(k1) /\ retained(k2) ]_vars

\* C13, amended: the import of a snapshot that carries projects, ledger and
\* settings replaces all three in one step; the state after the import has
\* the snapshot's projects, the snapshot's ledger and the snapshot's settings.
C13_FullSnapshotReplace ==
  [][ \A file \in ImportFiles :
        ( /\ lastOp' = "handleImport" /\ file.parseable
          /\ SnapshotKeys \subseteq DOMAIN file.json
          /\ handleImport(file) ) =>
          /\ projects' = file.json.projects
          /\ appHistory' = file.json.appHistory
          /\ settings' = file.json.settings ]_vars

\* an application with its own project, ledger entry and settings took over
\* the complete foreign snapshot
C13_Witness ==
  /\ lastOp = "handleImport"
  /\ idCounter = MaxIds
  /\ pomoCount > 0
  /\ projects = ForeignBackup.projects
  /\ appHistory = ForeignBackup.appHistory
  /\ settings = ForeignSettings

\* C14: the import of a file that is not JSON raises exactly one failure
\* alert and leaves projects, ledger, day notes, agendas, settings, the
\* selection and the timer as they were.
C14_UnparseableImport ==
  [][ (lastOp' = "handleImport" /\ handleImport([parseable |-> FALSE])) =>
        /\ Len(alerts') = 1
        /\ UNCHANGED << projects, appHistory, dayNotes, dayAgendas, settings,
                        selectedProjectId, activeSubtaskId, timerMode,
                        timeLeft, isActive, pomoCount, liveIntervals >> ]_vars

\* a populated application after a failed import
C14_Witness ==
  /\ lastOp = "handleImport"
  /\ alerts = ImportFailureAlerts
  /\ projects # << >>
  /\ appHistory # << >>
  /\ DOMAIN dayNotes # {}
  /\ settings # DEFAULT_SETTINGS

SameProject(a, b) ==
  /\ a.id = b.id /\ a.name = b.name /\ a.createdAt = b.createdAt
  /\ a.isDaily = b.isDaily /\ a.subtasks = b.subtasks
  /\ Get(a, "recurrenceEndDate", ProjectOptional)
       = Get(b, "recurrenceEndDate", ProjectOptional)

SameLog(a, b) ==
  /\ a.date = b.date /\ a.duration = b.duration
  /\ Get(a, "projectId", LogOptional) = Get(b, "projectId", LogOptional)
  /\ Get(a, "subtaskId", LogOptional) = Get(b, "subtaskId", LogOptional)

PersistedKeys ==
  {"projects", "appHistory", "dayNotes", "dayAgendas", "settings"}

\* C15: the file export writes holds projects, ledger, day notes, agendas
\* and settings, each field for field what the state holds (a field reads
\* the same value, undefined included); importing a file that holds all
\* five, the one just exported included, makes the state's five fields the
\* file's, so export followed by import reproduces the state at export time.
C15_RoundTrip ==
  [][ /\ PersistedKeys \subseteq DOMAIN handleExport.json
      /\ LET json == handleExport.json
         IN  /\ Len(json.projects) = Len(projects)
             /\ \A i \in 1..Len(projects) :
                  SameProject(json.projects[i], projects[i])
             /\ Len(json.appHistory) = Len(appHistory)
             /\ \A i \in 1..Len(appHistory) :
                  SameLog(json.appHistory[i], appHistory[i])
             /\ json.dayNotes = dayNotes
             /\ json.dayAgendas = dayAgendas
             /\ json.settings = settings
      /\ \A file \in ImportFiles \cup {handleExport} :
           ( /\ lastOp' = "handleImport" /\ file.parseable
             /\ PersistedKeys \subseteq DOMAIN file.json
             /\ handleImport(file) ) =>
             /\ projects' = file.json.projects
             /\ appHistory' = file.json.appHistory
             /\ dayNotes' = file.json.dayNotes
             /\ dayAgendas' = file.json.dayAgendas
             /\ settings' = file.json.settings ]_vars

\* a backup with a non-daily project, an unattributed ledger entry, a note,
\* an agenda and edited settings was read back
C15_Witness ==
  /\ lastOp = "handleImport"
  /\ alerts = << >>
  /\ \E i \in 1..Len(projects) :
       ~projects[i].isDaily /\ "recurrenceEndDate" \notin DOMAIN projects[i]
  /\ \E i \in 1..Len(appHistory) : "subtaskId" \notin DOMAIN appHistory[i]
  /\ DOMAIN dayNotes # {}
  /\ DOMAIN dayAgendas # {}
  /\ settings.dailyPomodoroTarget = 3

\* the subtask with id tid of a project list, only used when it is listed
SubtaskOf(ps, tid) ==
  LET p == ps[CHOOSE i \in 1..Len(ps) : tid \in SubtaskIdsOf(ps[i])]
  IN  p.subtasks[CHOOSE j \in 1..Len(p.subtasks) : p.subtasks[j].id = tid]

\* C16: after a press of the plus or minus button of a subtask, and after
\* the edit-subtask form was saved for it, the subtask's targetSessions is
\* neither below its completedSessions nor below 1.
C16_TargetFloor ==
  [][ \A tid \in 1..MaxIds :
        ( \/ /\ lastOp' = "updateSessionTarget"
              /\ \E increment \in {-1, 1} :
                   updateSessionTarget(selectedProjectId, tid, increment)
          \/ /\ lastOp' = "handleUpdateSubtask"
              /\ alerts' = << >>
              /\ \E form \in SubtaskForms : handleUpdateSubtask(tid, form) ) =>
          LET t == SubtaskOf(projects', tid)
          IN  t.targetSessions >= t.completedSessions /\ t.targetSessions >= 1 ]_vars

\* C19: for every non-daily project the calendar, the Gantt bar and the
\* Gantt export all give the project ceil(sum of targets / daily target)
\* days, a sum of 0 counting as 1, and never 0 days.
C19_SpanAgreement ==
  \A i \in 1..Len(projects) :
    ~projects[i].isDaily =>
      LET p    == projects[i]
          sum  == SumTargetSessions(p.subtasks, Len(p.subtasks))
          span == Ceil(IF sum = 0 THEN 1 ELSE sum, settings.dailyPomodoroTarget)
      IN  /\ span # 0
          /\ CalendarDurationDays(p, settings) = span
          /\ GanttDurationDays(p, settings) = span
          /\ ExportTotalDurationDays(p, settings) = span

\* C20: with a daily target of at least 1, no subtask bar of a non-daily
\* project ends (start + duration, as fractions of a day) more than one
\* day after ceil(total / daily target), and no subtask row of the export
\* ends (floor of the start + ceil of the duration) more than one day after
\* it either.
C20_SubtaskWithinSpan ==
  settings.dailyPomodoroTarget >= 1 =>
    \A i \in 1..Len(projects) :
      ~projects[i].isDaily =>
        LET p    == projects[i]
            span == Ceil(SumTargetSessions(p.subtasks, Len(p.subtasks)),
                         settings.dailyPomodoroTarget)
        IN  \A j \in 1..Len(p.subtasks) :
              LET start    == taskStartDays(p, j, settings)
                  duration == taskDurationDays(p, j, settings)
              IN  /\ start.den = duration.den
                  /\ start.num + duration.num <= (span + 1) * start.den
                  /\ ExportTaskStartOffset(p, j, settings)
                       + ExportTaskDurationDays(p, j, settings) <= span + 1

C17_CodecRoundTrip ==
  Multiply(parseDurationToMinutes(formatTime(timeLeft)), 60)
    = FromInteger(timeLeft)

\* C27: the completion of a break, by the countdown or by skip, leaves the
\* ledger, the projects with their subtasks' completedSessions and the
\* pomodoro count as they were; the pomodoro count changes in no step but
\* the completion of a pomodoro, which adds 1 to it: mode switches, resets,
\* settings edits and imports keep it.
C27_BreakFrame ==
  [][ /\ (lastOp' \in Completions /\ timerMode # POMODORO) =>
           UNCHANGED << appHistory, projects, pomoCount >>
      /\ (lastOp' \in Completions /\ timerMode = POMODORO) =>
           pomoCount' = pomoCount + 1
      /\ pomoCount' # pomoCount =>
           lastOp' \in Completions /\ timerMode = POMODORO ]_vars

\* a break ran down to 0 after a pomodoro that was logged and counted for
\* the active subtask
C27_Witness ==
  /\ lastOp = "TimerCompleteEffect"
  /\ timerMode = POMODORO
  /\ pomoCount = 1
  /\ Len(appHistory) = 1
  /\ projects # << >> /\ projects[1].subtasks[1].completedSessions = 1

\* C28: in every step of the timer, of the target buttons and of the
\* edit-subtask form every listed subtask stays listed and its
\* completedSessions does not go down; it changes only in the completion
\* of a pomodoro, for the active subtask of the selected project, and then
\* by exactly 1 whatever the subtask's target is.
C28_CompletedMonotone ==
  [][ \A tid \in AllSubtaskIds(projects) :
        LET before == CompletedOf(projects, tid)
            after  == CompletedOf(projects', tid)
            counted ==
              /\ lastOp' \in Completions /\ timerMode = POMODORO
              /\ tid = activeSubtaskId
              /\ SelectedProjectListed
              /\ tid \in SubtaskIdsOf(FindProject(projects, selectedProjectId))
        IN  /\ tid \in AllSubtaskIds(projects')
            /\ after >= before
            /\ counted => after = before + 1
            /\ after # before => counted ]_vars

\* a subtask of target 1 was worked on a second time
C28_Witness ==
  /\ lastOp = "skipTimer"
  /\ \E tid \in AllSubtaskIds(projects) :
       LET t == SubtaskOf(projects, tid)
       IN  t.completedSessions = 2 /\ t.targetSessions = 1

\* C25: every daily project has a recurrence end date, and that date is
\* not before the day the project was created.
C25_DailyEndAfterStart ==
  \A i \in 1..Len(projects) :
    projects[i].isDaily =>
      LET recurrenceEndDate ==
            Get(projects[i], "recurrenceEndDate", ProjectOptional)
      IN  /\ recurrenceEndDate # NoDate
          /\ recurrenceEndDate >= projects[i].createdAt

\* C26: after every step the selected project id is unset or the id of a
\* listed project, and the active subtask id is unset or the id of a
\* subtask of the selected project; a pomodoro completion that logs both
\* ids logs a subtask of the project it logs.
C26_ReferenceIntegrity ==
  [][ /\ selectedProjectId' = null
         \/ selectedProjectId' \in ProjectIdsOf(projects')
      /\ activeSubtaskId' = null
         \/ /\ selectedProjectId' \in ProjectIdsOf(projects')
            /\ activeSubtaskId'
                 \in SubtaskIdsOf(FindProject(projects', selectedProjectId'))
      /\ ( /\ lastOp' \in Completions /\ timerMode = POMODORO
           /\ selectedProjectId # null /\ activeSubtaskId # null ) =>
           /\ SelectedProjectListed
           /\ activeSubtaskId
                \in SubtaskIdsOf(FindProject(projects, selectedProjectId)) ]_vars

\* C29: an active timer that nobody touches counts down to 0 under fair
\* ticking, and with both auto-start flags on the cycle reaches the long
\* break that follows the fourth pomodoro
C29_CountsDownToZero ==
  /\ isActive ~> (timeLeft = 0)
  /\ (settings.autoStartBreaks /\ settings.autoStartPomodoros)
       => <>(timerMode = LONG_BREAK /\ pomoCount = 4)

\* C21: whenever a non-daily project exists, the Gantt axis reaches at
\* least today + 7 days and contains today, so the index of the today
\* column is a position of the axis (>= 0)
C21_TodayOnAxis ==
  LET days == timelineRange(projects, settings, today).days
  IN  Len(visibleProjects(projects)) > 0
        => /\ \E i \in 1..Len(days) : days[i] >= today + 7
           /\ \E i \in 1..Len(days) : days[i] = today
           /\ todayIdx(projects, settings, today) >= 0

\* C22: the Gantt axis is a run of consecutive days that starts at the
\* earliest creation date among the non-daily projects and has at most 365
\* entries; the rows are exactly the non-daily projects, and daily projects
\* change neither the axis nor the rows
C22_AxisShape ==
  LET range   == timelineRange(projects, settings, today)
      days    == range.days
      rows    == visibleProjects(projects)
      planned == { i \in 1..Len(projects) : ~projects[i].isDaily }
  IN  /\ Len(days) <= 365
      /\ \A i \in 1..(Len(days) - 1) : days[i + 1] = days[i] + 1
      /\ planned = {} => days = << >> /\ rows = << >>
      /\ (planned # {} /\ days # << >>)
           => /\ \E i \in planned : projects[i].createdAt = days[1]
              /\ \A i \in planned : projects[i].createdAt >= days[1]
      /\ \A r \in 1..Len(rows) : ~rows[r].isDaily
      /\ { rows[r].id : r \in 1..Len(rows) }
           = { projects[i].id : i \in planned }

\* a daily project older than every planned project is listed, and the
\* axis has been cut at 365 entries
C22_Witness ==
  LET days == timelineRange(projects, settings, today).days
  IN  /\ \E i \in 1..Len(projects), j \in 1..Len(projects) :
            /\ projects[i].isDaily /\ ~projects[j].isDaily
            /\ projects[i].createdAt < projects[j].createdAt
      /\ Len(days) = 365

\* the chart's minutes of the entries with a date label among the first n
RECURSIVE ChartMinutesOn(_, _, _)
ChartMinutesOn(data, n, date) ==
  IF n = 0 THEN FromInteger(0)
  ELSE IF data[n].date = date
       THEN Plus(ChartMinutesOn(data, n - 1, date),
                 parseDurationToMinutes(data[n].duration))
       ELSE ChartMinutesOn(data, n - 1, date)

\* the calendar's minutes of the entries with a date label among the first
\* n, of all entries when every is TRUE
RECURSIVE CalendarMinutesOn(_, _, _, _)
CalendarMinutesOn(history, n, date, every) ==
  IF n = 0 THEN 0
  ELSE IF every \/ history[n].date = date
       THEN CalendarMinutesOn(history, n - 1, date, every)
              + CalendarMinutes(history[n].duration)
       ELSE CalendarMinutesOn(history, n - 1, date, every)

\* the sum of a map's values over the date labels in S
RECURSIVE TotalOver(_, _)
TotalOver(map, S) ==
  IF S = {} THEN 0
  ELSE LET date == CHOOSE d \in S : TRUE
       IN  map[date] + TotalOver(map, S \ {date})

\* C23: the minutes per date are, for each distinct date label of the
\* ledger, the sum of the minutes parsed from the durations of the entries
\* with that label, in the chart and in the calendar; "25:00" and "1:05:00"
\* on one date give 90; every entry counts in the total of one date
C23_MinutesByDate ==
  LET n        == Len(appHistory)
      chart    == dailyAggregates(appHistory, n)
      calendar == historyMap(appHistory, n)
      labels   == { appHistory[i].date : i \in 1..n }
      example  == << <<"2", "5", ":", "0", "0">>,
                     <<"1", ":", "0", "5", ":", "0", "0">> >>
  IN  /\ { chart[k].date : k \in 1..Len(chart) } = labels
      /\ Len(chart) = Cardinality(labels)
      /\ DOMAIN calendar = labels
      /\ \A k \in 1..Len(chart) :
           chart[k].minutes = ChartMinutesOn(appHistory, n, chart[k].date)
      /\ \A date \in labels :
           calendar[date] = CalendarMinutesOn(appHistory, n, date, FALSE)
      /\ TotalOver(calendar, labels)
           = CalendarMinutesOn(appHistory, n, << >>, TRUE)
      /\ [ i \in 1..n |-> appHistory[i].duration ] = example
           /\ appHistory[1].date = appHistory[2].date
           => /\ chart[1].minutes = FromInteger(90)
              /\ calendar[appHistory[1].date] = 90

\* the ledger "25:00", "1:05:00" on one date has been restored and read
C23_Witness ==
  /\ lastOp = "handleImport"
  /\ Len(appHistory) = 2
  /\ appHistory[1].date = appHistory[2].date
  /\ appHistory[2].duration = <<"1", ":", "0", "5", ":", "0", "0">>
  /\ dailyAggregates(appHistory, 2)[1].minutes = FromInteger(90)

\* C30: on a ledger whose entries all carry a duration the timer writes
\* for a pomodoro of 1 minute or more, the calendar's minutes and the
\* chart's minutes are equal for every date label, below an hour (mm:ss)
\* and from an hour on (hh:mm:ss)
C30_AggregatorsAgree ==
  LET n        == Len(appHistory)
      chart    == dailyAggregates(appHistory, n)
      calendar == historyMap(appHistory, n)
      written  == \A i \in 1..n : \E d \in 1..MaxMinutes :
                    appHistory[i].duration = formatTime(d * 60)
  IN  written
        => /\ DOMAIN calendar = { chart[k].date : k \in 1..Len(chart) }
           /\ \A k \in 1..Len(chart) :
                FromInteger(calendar[chart[k].date]) = chart[k].minutes

\* a pomodoro of 25 minutes and one of more than an hour were completed on
\* the same day
C30_Witness ==
  /\ lastOp = "skipTimer"
  /\ Len(appHistory) = 2
  /\ appHistory[1].date = appHistory[2].date
  /\ appHistory[1].duration = formatTime(25 * 60)
  /\ appHistory[2].duration = formatTime(MaxMinutes * 60)

\* a date label in the compact form "04Dec25"
IsCompactLabel(label) ==
  /\ Len(label) = 7
  /\ \A i \in {1, 2, 6, 7} : IsDigit(label[i])
  /\ \E m \in 1..12 : ShortMonths[m] = SubSeq(label, 3, 5)

\* C24: in the chart's grouping by month no date of the ledger is dropped:
\* a date label that is neither in the long form nor in the compact form
\* gets the epoch as its date and is shown under it, and the dates are in
\* ascending order within every month and the months in ascending order
C24_UnparseableKept ==
  LET n          == Len(appHistory)
      aggregates == dailyAggregates(appHistory, n)
      grouped    == groups(appHistory)
      months     == sortedMonthKeys(appHistory)
      shown      == UNION { { << key, j >> : j \in 1..Len(grouped[key]) } :
                              key \in DOMAIN grouped }
      noDate(label) == ~DateFromString(label).valid /\ ~IsCompactLabel(label)
  IN  /\ Cardinality(shown) = Len(aggregates)
      /\ \A k \in 1..Len(aggregates) :
           noDate(aggregates[k].date)
             => /\ aggregates[k].dateObj = Epoch
                /\ \E item \in shown :
                     grouped[item[1]][item[2]].dateObj = Epoch
      /\ \A key \in DOMAIN grouped :
           \A i \in 1..Len(grouped[key]), j \in 1..Len(grouped[key]) :
             i < j => getTime(grouped[key][i].dateObj)
                        <= getTime(grouped[key][j].dateObj)
      /\ \A i \in 1..Len(months), j \in 1..Len(months) :
           i < j => getTime(grouped[months[i]][1].dateObj)
                      < getTime(grouped[months[j]][1].dateObj)

====
